---------------------------- MODULE Spec2Model ----------------------------
(***************************************************************************)
(* SmartFileOrganizer: the plan lifecycle (scan, propose, approve,         *)
(* execute, rollback) over the audit store and the file system, the       *)
(* process lock and scan state of the recovery manager, the command line,  *)
(* the scanner, the watch handler, the destinations of a proposal, and     *)
(* the utilities: retry, connection monitor, redaction, risk score.        *)
(***************************************************************************)
EXTENDS Integers, Sequences, FiniteSets, TLC

VARIABLES
    fs,          \* path -> bytes of the file there (NoFile when absent)
    backups,     \* <<proposal_id, file name>> -> bytes under backups/<id>/<name>
    db,          \* audit.db: [scans, proposals, moves]
    jsonl,       \* audit.jsonl, the appended records in order
    exec,        \* the running (or last) execute_proposal call
    result,      \* what the last operation returned
    disk_moves,  \* history: the renames execute_proposal performed on disk
    move_hist,   \* history: per Move row, the bytes moved and the approval seen
    faults,      \* errors, kills and outside deletions so far
    lock_file,   \* content of organizer.lock (NoLock when absent)
    lk,          \* per process: position inside _try_acquire_lock/_release_lock
    state_dir,   \* state/: current_scan.json and the temp file written beside it
    rm,          \* the recovery manager's call in progress
    rec_result,  \* what detect_crash / get_interrupted_scan last returned
    rec_hist,    \* history: the recovery calls that returned since the last start_scan
    safe_mode,   \* ctx.obj['safe_mode'] of the command line process
    recovery_state_file,  \* state/recovery_state.json, the safe-mode sentinel
    au,          \* the audit trail's log_* call in progress
    sg,          \* the Suggester's answer to the last generate_proposal call
    rt,          \* the retry_with_backoff wrapper call in progress
    cm,          \* the ConnectionMonitor: state, pending_operations and what it ran
    rd,          \* the redactor run: the text, redact of it and redact of that
    rk,          \* the risk assessment: the file and its calculate_risk_score
    sc,          \* the scan command: the statement it stands at and how it ended
    sn,          \* Scanner.scan inside scan_directory: the tree, the loop position, the records
    wb,          \* watch batch mode: pending_files, the two threads, the batches processed
    dp           \* the destination built from one suggestion and the move to it

vars == <<fs, backups, db, jsonl, exec, result, disk_moves, move_hist, faults,
          lock_file, lk, state_dir, rm, rec_result, rec_hist, safe_mode,
          recovery_state_file, au, sg, rt, cm, rd, rk, sc, sn, wb, dp>>

orgVars == <<fs, backups, db, jsonl, exec, result, disk_moves, move_hist, faults>>
lockVars == <<lock_file, lk>>
recVars == <<rm, rec_result, rec_hist>>
cliVars == <<safe_mode, recovery_state_file>>
\* The planner's collaborator and the utilities (utils/, analysis/).
utilVars == <<sg, rt, cm, rd, rk, sc, sn, wb, dp>>
\* What the organizer's operations leave alone, besides state_dir.
sideVars == <<lockVars, recVars, cliVars, au, utilVars>>
\* What the lock operations leave alone, besides orgVars.
restVars == <<state_dir, recVars, cliVars, au, utilVars>>
\* The stores of the organizer, the lock, the recovery manager and the command
\* line together: what the utilities leave alone.
coreVars == <<orgVars, lockVars, state_dir, recVars, cliVars, au>>
\* What the planner leaves alone among the utilities, and what the retry
\* wrapper leaves alone.
planFrame == <<rt, cm, rd, rk, sc, sn, wb, dp>>
retryFrame == <<coreVars, sg, cm, rd, rk, sc, sn, wb, dp>>

---------------------------------------------------------------------------
\* Bounds of the model.
MaxScans == 1
MaxFaults == 1
MaxLog == 4
MaxFiles == 1
MaxPlans == 2

---------------------------------------------------------------------------
\* The files and directories of the modelled tree.  A path is <<directory, name>>.
NoFile == 0

SrcOrder == << <<"in1", "x">>, <<"in1", "y">>, <<"in2", "x">> >>
SrcPaths == {SrcOrder[i] : i \in 1..Len(SrcOrder)}
DestDirs == {"Docs", "Work"}
Names == {"x", "y"}
DestPaths == DestDirs \X Names
Paths == SrcPaths \cup DestPaths

\* The bytes each file holds when the program first sees it.
InitialBytes(path) ==
    CASE path = <<"in1", "x">> -> 1
      [] path = <<"in1", "y">> -> 2
      [] path = <<"in2", "x">> -> 3
      [] OTHER -> NoFile

\* FileInfo.risk_score as the scanner computed it.
risk_score(path) == IF path = <<"in1", "y">> THEN 60 ELSE 0

\* FileInfo.size in MiB.
size_mb(path) == IF path = <<"in1", "y">> THEN 600 ELSE 1

\* The directories a scan command can be pointed at, and the files under each
\* ("in" is the parent of in1 and in2, scanned with --recursive).
ScanTargets == {"in", "in1", "in2"}
Under(target) == {p \in SrcPaths : target = "in" \/ p[1] = target}

backup_enabled == TRUE
SkipLargeFilesMb == 500
AutoApproveThreshold == 30
RuleConfidence == 75
AiConfidence == 50

---------------------------------------------------------------------------
\* Database (core/database.py).  Row ids are the positions in the sequences.

add_scan(d, path, file_count) ==
    [d EXCEPT !.scans = Append(@, [path |-> path, file_count |-> file_count])]

add_proposal(d, scan_id, plan, confidence) ==
    [d EXCEPT !.proposals = Append(@, [scan_id |-> scan_id, plan |-> plan,
                                       confidence |-> confidence,
                                       user_approved |-> "null",
                                       rolled_back |-> FALSE])]

\* update_proposal_approval written as INSERT OR REPLACE: the columns the
\* statement does not name fall back to their defaults.
update_proposal_approval_replace(d, proposal_id, approved) ==
    IF proposal_id \in DOMAIN d.proposals
    THEN [d EXCEPT !.proposals[proposal_id] =
              [scan_id |-> @.scan_id, plan |-> @.plan, confidence |-> 0,
               user_approved |-> IF approved THEN "true" ELSE "false",
               rolled_back |-> FALSE]]
    ELSE d

update_proposal_approval(d, proposal_id, approved) ==
    IF proposal_id \in DOMAIN d.proposals
    THEN [d EXCEPT !.proposals[proposal_id].user_approved =
                        IF approved THEN "true" ELSE "false"]
    ELSE d

add_move_swapped(d, proposal_id, original_path, new_path) ==
    [d EXCEPT !.moves = Append(@, [proposal_id |-> proposal_id,
                                   original_path |-> new_path,
                                   new_path |-> original_path])]

add_move(d, proposal_id, original_path, new_path) ==
    [d EXCEPT !.moves = Append(@, [proposal_id |-> proposal_id,
                                   original_path |-> original_path,
                                   new_path |-> new_path])]

mark_proposal_rolled_back(d, proposal_id) ==
    IF proposal_id \in DOMAIN d.proposals
    THEN [d EXCEPT !.proposals[proposal_id].rolled_back = TRUE]
    ELSE d

get_proposal_by_id(d, proposal_id) ==
    IF proposal_id \in DOMAIN d.proposals THEN <<d.proposals[proposal_id]>> ELSE << >>

\* The ids of the Move rows of a proposal, in row order.
get_moves_by_proposal(d, proposal_id) ==
    LET ids == [i \in 1..Len(d.moves) |-> i]
        Mine(i) == d.moves[i].proposal_id = proposal_id
    IN  SelectSeq(ids, Mine)

---------------------------------------------------------------------------
\* AuditTrail (audit/trail.py).  An audit store value is [db, jsonl].

_write_jsonl(log, entry) == Append(log, entry)

log_scan(a, path, file_count) ==
    LET d == add_scan(a.db, path, file_count)
    IN  [db |-> d,
         jsonl |-> _write_jsonl(a.jsonl, [action |-> "scan", id |-> Len(d.scans),
                                          n |-> file_count, ok |-> TRUE])]

log_propose(a, scan_id, plan, confidence) ==
    LET d == add_proposal(a.db, scan_id, plan, confidence)
    IN  [db |-> d,
         jsonl |-> _write_jsonl(a.jsonl, [action |-> "propose",
                                          id |-> Len(d.proposals),
                                          n |-> confidence, ok |-> TRUE])]

log_approval(a, proposal_id, approved) ==
    [db |-> update_proposal_approval(a.db, proposal_id, approved),
     jsonl |-> _write_jsonl(a.jsonl, [action |-> "approval", id |-> proposal_id,
                                      n |-> 0, ok |-> approved])]

log_execute(a, proposal_id, files_moved, success) ==
    [db |-> a.db,
     jsonl |-> _write_jsonl(a.jsonl, [action |-> "execute", id |-> proposal_id,
                                      n |-> files_moved, ok |-> success])]

log_move(a, proposal_id, original_path, new_path) ==
    [db |-> add_move(a.db, proposal_id, original_path, new_path),
     jsonl |-> a.jsonl]

log_rollback(a, proposal_id, files_restored) ==
    [db |-> mark_proposal_rolled_back(a.db, proposal_id),
     jsonl |-> _write_jsonl(a.jsonl, [action |-> "rollback", id |-> proposal_id,
                                      n |-> files_restored, ok |-> TRUE])]

---------------------------------------------------------------------------
\* File system primitives.

exists(f, path) == f[path] # NoFile

\* shutil.move(src, dst) on an existing src: a rename that replaces dst.
shutil_move(f, src, dst) == [f EXCEPT ![dst] = f[src], ![src] = NoFile]

\* shutil.copy2(src, dst) writes the bytes of src over dst.
shutil_copy2(f, bytes, dst) == [f EXCEPT ![dst] = bytes]

---------------------------------------------------------------------------
\* Organizer (core/organizer.py).

\* Scanner.scan as scan_directory uses it: the files present under the target.
scan_files(f, target) ==
    LET Found(p) == p \in Under(target) /\ exists(f, p)
    IN  SelectSeq(SrcOrder, Found)

scan_directory(a, f, target) == log_scan(a, target, Len(scan_files(f, target)))

\* Categorizer.build_path for the file's categories: the rule-based directory.
rule_dir(path) == IF path = <<"in2", "x">> THEN "Work" ELSE "Docs"

\* _get_rule_based_destination
_get_rule_based_destination(path) == <<rule_dir(path), path[2]>>

\* _generate_rule_based_proposal: OrganizationProposal.files
_generate_rule_based_proposal(files) ==
    [i \in 1..Len(files) |-> [source |-> files[i],
                              destination |-> _get_rule_based_destination(files[i])]]

\* _generate_ai_proposal: a suggestion is found by the file's name; a file
\* without one keeps its rule-based destination.
_generate_ai_proposal(files, sug) ==
    [i \in 1..Len(files) |->
        [source |-> files[i],
         destination |-> IF sug[files[i][2]] = "none"
                         THEN _get_rule_based_destination(files[i])
                         ELSE <<sug[files[i][2]], files[i][2]>>]]

\* What the AI provider does for one call.
AiOutcomes == {"unavailable", "failed", "ok"}

\* The suggestions analyze_files can return for the files, per file name: one
\* directory for all of them, or no suggestion.
Suggestions(ai, files) ==
    IF ai = "ok"
    THEN {[n \in {files[i][2] : i \in 1..Len(files)} |-> d] :
             d \in DestDirs \cup {"none"}}
    ELSE {[n \in {files[i][2] : i \in 1..Len(files)} |-> "none"]}

\* The in-memory proposal generate_proposal builds.
proposal_files(files, ai, sug) ==
    IF ai = "ok" THEN _generate_ai_proposal(files, sug)
    ELSE _generate_rule_based_proposal(files)

proposal_confidence(ai) == IF ai = "ok" THEN AiConfidence ELSE RuleConfidence

proposal_reasoning(ai) == IF ai = "ok" THEN "AI-generated organization plan"
                          ELSE "Rule-based organization"

\* OrganizationProposal.to_dict(), the persisted plan.
to_dict(pfiles, confidence, reasoning) ==
    [files |-> [i \in 1..Len(pfiles) |->
                   [source |-> pfiles[i].source,
                    destination |-> pfiles[i].destination,
                    risk_score |-> risk_score(pfiles[i].source)]],
     confidence |-> confidence,
     reasoning |-> reasoning]

generate_proposal(a, scan_id, files, ai, sug) ==
    log_propose(a, scan_id,
                to_dict(proposal_files(files, ai, sug), proposal_confidence(ai),
                        proposal_reasoning(ai)),
                proposal_confidence(ai))

\* The low-risk part of a proposal, as scan --batch and watch batch select it.
low_risk_files(pfiles) ==
    LET Low(e) == risk_score(e.source) <= AutoApproveThreshold
    IN  SelectSeq(pfiles, Low)

\* _backup_file: a physical copy unless the file is at or above the threshold.
needs_backup(path) == backup_enabled /\ size_mb(path) < SkipLargeFilesMb

_backup_file(bk, f, proposal_id, source) ==
    IF size_mb(source) >= SkipLargeFilesMb THEN bk
    ELSE [bk EXCEPT ![<<proposal_id, source[2]>>] = f[source]]

Idle == [active |-> FALSE, proposal_id |-> 0, files |-> << >>, idx |-> 0,
         files_moved |-> 0, mode |-> "none"]

NoResult == [op |-> "none", proposal_id |-> 0, success |-> FALSE, count |-> 0,
             unresolved |-> {}]

start_execute_reversed(proposal_id, pfiles, mode) ==
    [active |-> TRUE, proposal_id |-> proposal_id,
     files |-> [k \in 1..Len(pfiles) |-> pfiles[Len(pfiles) + 1 - k]], idx |-> 1,
     files_moved |-> 0, mode |-> mode]

start_execute(proposal_id, pfiles, mode) ==
    [active |-> TRUE, proposal_id |-> proposal_id, files |-> pfiles, idx |-> 1,
     files_moved |-> 0, mode |-> mode]

Audit == [db |-> db, jsonl |-> jsonl]

---------------------------------------------------------------------------
\* StateRecoveryManager (utils/recovery.py): the scan state and its file.
\* The operators below are the calls when every file-system call succeeds;
\* the actions further down take them statement by statement, with write
\* errors and with the process killed between any two statements.

\* The content of a file of the state directory: absent, a proper prefix of a
\* JSON document, or the document of a ScanState.
NoState == [kind |-> "absent", scan_id |-> 0, path |-> "", total_files |-> 0,
            processed_files |-> 0, completed |-> FALSE]
PartialState == [NoState EXCEPT !.kind = "partial"]

\* ScanState(...).to_dict()
ScanState(scan_id, path, total_files, processed_files, completed) ==
    [kind |-> "state", scan_id |-> scan_id, path |-> path,
     total_files |-> total_files, processed_files |-> processed_files,
     completed |-> completed]

\* json.load followed by ScanState.from_dict succeeds on a whole document only.
parses(content) == content.kind = "state"

mkstemp_in_place(file_path) == file_path

\* tempfile.mkstemp(dir=file_path.parent, ...): a new file beside the target.
mkstemp(file_path) == "temp"

\* _atomic_write_json, call by call: mkstemp, json.dump + flush + fsync,
\* os.replace.
aw_mkstemp(sd) == [sd EXCEPT ![mkstemp("current")] = PartialState]
aw_dump(sd, data) == [sd EXCEPT ![mkstemp("current")] = data]
aw_replace(sd) ==
    IF mkstemp("current") = "current" THEN sd
    ELSE [current |-> sd.temp, temp |-> NoState]

_atomic_write_json(sd, data) == aw_replace(aw_dump(aw_mkstemp(sd), data))

\* The document start_scan, update_scan_progress and complete_scan write;
\* NoState when the call writes nothing.
start_scan_data(scan_id, path, total_files) ==
    ScanState(scan_id, path, total_files, 0, FALSE)

update_scan_progress_data_stale(sd, processed_files) ==
    IF parses(sd.current) THEN sd.current ELSE NoState

update_scan_progress_data(sd, processed_files) ==
    IF parses(sd.current)
    THEN [sd.current EXCEPT !.processed_files = processed_files]
    ELSE NoState

complete_scan_data_unmarked(sd) ==
    IF parses(sd.current) THEN sd.current ELSE NoState

complete_scan_data(sd) ==
    IF parses(sd.current) THEN [sd.current EXCEPT !.completed = TRUE] ELSE NoState

start_scan(sd, scan_id, path, total_files) ==
    _atomic_write_json(sd, start_scan_data(scan_id, path, total_files))

update_scan_progress(sd, processed_files) ==
    IF update_scan_progress_data(sd, processed_files) = NoState THEN sd
    ELSE _atomic_write_json(sd, update_scan_progress_data(sd, processed_files))

complete_scan(sd) ==
    IF complete_scan_data(sd) = NoState THEN sd
    ELSE _atomic_write_json(sd, complete_scan_data(sd))

clear_scan_state(sd) == [sd EXCEPT !.current = NoState]

\* _archive_corrupted_file: the file is renamed away.
_archive_corrupted_file(sd) == [sd EXCEPT !.current = NoState]

\* detect_crash: [crash, state_dir].
detect_crash(sd) ==
    IF sd.current.kind = "absent" THEN [crash |-> FALSE, state_dir |-> sd]
    ELSE IF ~parses(sd.current)
    THEN [crash |-> TRUE, state_dir |-> _archive_corrupted_file(sd)]
    ELSE [crash |-> ~sd.current.completed, state_dir |-> sd]

get_interrupted_scan_any(sd) ==
    IF parses(sd.current) THEN sd.current ELSE NoState

\* get_interrupted_scan: the ScanState, or NoState for None.
get_interrupted_scan(sd) ==
    IF parses(sd.current) /\ ~sd.current.completed THEN sd.current ELSE NoState

\* reconstruct_incident: the line "Progress: k/N files".
reconstruct_incident(scan_state) ==
    <<"Progress: ", scan_state.processed_files, "/", scan_state.total_files,
      " files">>

\* The recovery manager call by call.  rm is the call in progress: where it
\* stands in _atomic_write_json, the document it writes, and its argument.
RmIdle == [pc |-> "idle", op |-> "none", data |-> NoState, arg |-> 0]

\* What detect_crash and get_interrupted_scan last returned.
NoRecResult == [detected |-> "none", got |-> FALSE, scan |-> NoState]

\* The calls made so far: phase is "started" once start_scan has returned and
\* only update_scan_progress calls have followed, scan is the ScanState those
\* calls were given, prev and new are the file before and after the last
\* write, killed tells that the process died inside the last call.
NoRecHist == [phase |-> "none", scan |-> NoState, prev |-> NoState,
              new |-> NoState, killed |-> FALSE]

\* The unlink of the temporary file in the except branch (recovery.py 129-135).
aw_cleanup(sd) == [sd EXCEPT ![mkstemp("current")] = NoState]

StartScanCall(scan_id, path, total_files) ==
    /\ rm.pc = "idle"
    /\ rm' = [pc |-> "mkstemp", op |-> "start_scan",
              data |-> start_scan_data(scan_id, path, total_files), arg |-> 0]
    /\ rec_result' = NoRecResult
    /\ rec_hist' = [phase |-> "starting",
                    scan |-> ScanState(scan_id, path, total_files, 0, FALSE),
                    prev |-> state_dir.current,
                    new |-> start_scan_data(scan_id, path, total_files),
                    killed |-> FALSE]
    /\ UNCHANGED <<orgVars, lockVars, cliVars, au, utilVars, state_dir>>

\* update_scan_progress up to the call of _atomic_write_json; it returns at
\* once when the file is missing and logs the error when it does not parse.
UpdateScanProgressCall(processed_files) ==
    /\ rm.pc = "idle"
    /\ LET data == update_scan_progress_data(state_dir, processed_files)
       IN  /\ rm' = IF data = NoState THEN RmIdle
                     ELSE [pc |-> "mkstemp", op |-> "update_scan_progress",
                           data |-> data, arg |-> processed_files]
           /\ rec_hist' = [rec_hist EXCEPT
                              !.prev = state_dir.current,
                              !.new = IF data = NoState THEN state_dir.current
                                      ELSE data,
                              !.killed = FALSE]
    /\ rec_result' = NoRecResult
    /\ UNCHANGED <<orgVars, lockVars, cliVars, au, utilVars, state_dir>>

CompleteScanCall ==
    /\ rm.pc = "idle"
    /\ LET data == complete_scan_data(state_dir)
       IN  /\ rm' = IF data = NoState THEN RmIdle
                     ELSE [pc |-> "mkstemp", op |-> "complete_scan",
                           data |-> data, arg |-> 0]
           /\ rec_hist' = [rec_hist EXCEPT
                              !.phase = IF @ = "started" /\ data # NoState
                                        THEN "completing"
                                        ELSE IF @ = "completed" THEN @
                                        ELSE "none",
                              !.prev = state_dir.current,
                              !.new = IF data = NoState THEN state_dir.current
                                      ELSE data,
                              !.killed = FALSE]
    /\ rec_result' = NoRecResult
    /\ UNCHANGED <<orgVars, lockVars, cliVars, au, utilVars, state_dir>>

AwMkstemp ==
    /\ rm.pc = "mkstemp"
    /\ state_dir' = aw_mkstemp(state_dir)
    /\ rm' = [rm EXCEPT !.pc = "dump"]
    /\ UNCHANGED <<orgVars, lockVars, cliVars, au, utilVars, rec_result, rec_hist>>

AwDump ==
    /\ rm.pc = "dump"
    /\ state_dir' = aw_dump(state_dir, rm.data)
    /\ rm' = [rm EXCEPT !.pc = "replace"]
    /\ UNCHANGED <<orgVars, lockVars, cliVars, au, utilVars, rec_result, rec_hist>>

\* os.replace, and the return of the call that wrote.
AwReplace ==
    /\ rm.pc = "replace"
    /\ state_dir' = aw_replace(state_dir)
    /\ rm' = RmIdle
    /\ rec_hist' =
         IF rm.op = "start_scan" THEN [rec_hist EXCEPT !.phase = "started"]
         ELSE IF rm.op = "update_scan_progress"
         THEN [rec_hist EXCEPT !.scan = IF rec_hist.phase \in {"started", "completed"}
                                        THEN [@ EXCEPT !.processed_files = rm.arg]
                                        ELSE @]
         ELSE [rec_hist EXCEPT !.phase = IF @ = "completing" THEN "completed" ELSE @]
    /\ UNCHANGED <<orgVars, lockVars, cliVars, au, utilVars, rec_result>>

\* A call of _atomic_write_json raises: mkstemp, or the write, or os.replace.
\* The temporary file is unlinked and the caller logs the error and returns.
AwFail ==
    /\ rm.pc \in {"mkstemp", "dump", "replace"}
    /\ state_dir' = IF rm.pc = "mkstemp" THEN state_dir ELSE aw_cleanup(state_dir)
    /\ rm' = RmIdle
    /\ rec_hist' = [rec_hist EXCEPT !.phase = "failed"]
    /\ UNCHANGED <<orgVars, lockVars, cliVars, au, utilVars, rec_result>>

\* The process is killed inside a call; the next process starts idle.
Kill ==
    /\ rm.pc # "idle"
    /\ rm' = RmIdle
    /\ rec_hist' = [rec_hist EXCEPT !.killed = TRUE]
    /\ UNCHANGED <<orgVars, lockVars, cliVars, au, utilVars, rec_result, state_dir>>

ClearScanState ==
    /\ rm.pc = "idle"
    /\ state_dir' = clear_scan_state(state_dir)
    /\ rec_hist' = [rec_hist EXCEPT !.phase = "cleared",
                                    !.prev = state_dir.current,
                                    !.new = NoState, !.killed = FALSE]
    /\ rec_result' = NoRecResult
    /\ UNCHANGED <<orgVars, lockVars, cliVars, au, utilVars, rm>>

DetectCrash ==
    /\ rm.pc = "idle"
    /\ rec_result' = [rec_result EXCEPT
                        !.detected = IF detect_crash(state_dir).crash
                                     THEN "true" ELSE "false"]
    /\ state_dir' = detect_crash(state_dir).state_dir
    /\ UNCHANGED <<orgVars, lockVars, cliVars, au, utilVars, rm, rec_hist>>

GetInterruptedScan ==
    /\ rm.pc = "idle"
    /\ rec_result' = [rec_result EXCEPT !.got = TRUE,
                                        !.scan = get_interrupted_scan(state_dir)]
    /\ UNCHANGED <<orgVars, lockVars, cliVars, au, utilVars, rm, rec_hist, state_dir>>

---------------------------------------------------------------------------
\* The commands that reach execute_proposal (cli/main.py scan, cli/watch.py).

RangeOf(seq) == {seq[i] : i \in 1..Len(seq)}

CanScan == ~exec.active /\ Len(db.scans) < MaxScans

\* The state directory after start_scan(scan_id, path, len(files)) of the scan
\* command.
Started(target, files) ==
    start_scan(state_dir, Len(db.scans) + 1, target, Len(files))

\* The scan command calls complete_scan when execute_proposal has returned;
\* the watch handlers and direct callers keep no scan state.
ScanCommandModes == {"interactive", "batch"}

\* The audit store after scan_directory and generate_proposal.
Proposed(target, files, ai, sug) ==
    LET a1 == scan_directory(Audit, fs, target)
    IN  generate_proposal(a1, Len(a1.db.scans), files, ai, sug)

\* scan <path>, interactive: the user's answer is logged, then the proposal runs.
ScanInteractive(target, ai, answer) ==
    /\ CanScan
    /\ LET files == scan_files(fs, target)
       IN  IF files = << >>
           THEN LET a1 == scan_directory(Audit, fs, target)
                IN  /\ db' = a1.db
                    /\ jsonl' = a1.jsonl
                    /\ exec' = Idle
                    /\ state_dir' = complete_scan(Started(target, files))
           ELSE \E sug \in Suggestions(ai, files) :
                    LET a2 == Proposed(target, files, ai, sug)
                        pid == Len(a2.db.proposals)
                        a3 == log_approval(a2, pid, answer)
                    IN  /\ db' = a3.db
                        /\ jsonl' = a3.jsonl
                        /\ exec' = IF answer
                                   THEN start_execute(pid, proposal_files(files, ai, sug),
                                                      "interactive")
                                   ELSE Idle
                        /\ state_dir' = IF answer THEN Started(target, files)
                                        ELSE complete_scan(Started(target, files))
    /\ result' = NoResult
    /\ UNCHANGED <<fs, backups, disk_moves, move_hist, faults, sideVars>>

\* scan <path> --batch: the low-risk files run as a sub-proposal with the same id.
ScanBatch(target, ai) ==
    /\ CanScan
    /\ LET files == scan_files(fs, target)
       IN  IF files = << >>
           THEN LET a1 == scan_directory(Audit, fs, target)
                IN  /\ db' = a1.db
                    /\ jsonl' = a1.jsonl
                    /\ exec' = Idle
                    /\ state_dir' = complete_scan(Started(target, files))
           ELSE \E sug \in Suggestions(ai, files) :
                    LET a2 == Proposed(target, files, ai, sug)
                        pid == Len(a2.db.proposals)
                        low == low_risk_files(proposal_files(files, ai, sug))
                    IN  /\ db' = a2.db
                        /\ jsonl' = a2.jsonl
                        /\ exec' = IF low # << >>
                                   THEN start_execute(pid, low, "batch")
                                   ELSE Idle
                        /\ state_dir' = IF low # << >> THEN Started(target, files)
                                        ELSE complete_scan(Started(target, files))
    /\ result' = NoResult
    /\ UNCHANGED <<fs, backups, disk_moves, move_hist, faults, sideVars>>

\* watch, immediate mode: _process_file for one created file.
WatchImmediate(path, ai) ==
    /\ CanScan
    /\ exists(fs, path)
    /\ \E sug \in Suggestions(ai, <<path>>) :
           LET files == <<path>>
               a2 == Proposed(path[1], files, ai, sug)
               pid == Len(a2.db.proposals)
               low == risk_score(path) <= AutoApproveThreshold
               a3 == IF low THEN log_approval(a2, pid, TRUE) ELSE a2
           IN  /\ db' = a3.db
               /\ jsonl' = a3.jsonl
               /\ exec' = IF low
                          THEN start_execute(pid, proposal_files(files, ai, sug),
                                             "watch_immediate")
                          ELSE Idle
    /\ result' = NoResult
    /\ UNCHANGED <<fs, backups, disk_moves, move_hist, faults, state_dir, sideVars>>

\* watch, batch mode: _process_batch for the pending files of one directory.
WatchBatch(directory, pending, ai) ==
    /\ CanScan
    /\ pending # {}
    /\ LET Pending(p) == p \in pending
           files == SelectSeq(scan_files(fs, directory), Pending)
       IN  IF files = << >>
           THEN LET a1 == scan_directory(Audit, fs, directory)
                IN  /\ db' = a1.db
                    /\ jsonl' = a1.jsonl
                    /\ exec' = Idle
           ELSE \E sug \in Suggestions(ai, files) :
                  LET a2 == Proposed(directory, files, ai, sug)
                      pid == Len(a2.db.proposals)
                      low == low_risk_files(proposal_files(files, ai, sug))
                      a3 == IF low # << >> THEN log_approval(a2, pid, TRUE) ELSE a2
                  IN  /\ db' = a3.db
                      /\ jsonl' = a3.jsonl
                      /\ exec' = IF low # << >>
                                 THEN start_execute(pid, low, "watch_batch")
                                 ELSE Idle
    /\ result' = NoResult
    /\ UNCHANGED <<fs, backups, disk_moves, move_hist, faults, state_dir, sideVars>>

---------------------------------------------------------------------------
\* execute_proposal (core/organizer.py), one loop iteration per step.  The fault
\* names the statement of the iteration that raises, or after which the process
\* is killed; "none" is the iteration that runs through.

Faults == {"mkdir", "move", "log_move", "kill_after_backup", "kill_after_move"}

\* Where an exception in the loop body leaves the call: the try block encloses
\* the whole for loop, so the except branch runs once and the call returns.
leave_loop_per_file(e) == [e EXCEPT !.idx = @ + 1]

leave_loop(e) == Idle

ExecuteFile(fault) ==
    /\ exec.active
    /\ exec.idx <= Len(exec.files)
    /\ fault # "none" => faults < MaxFaults
    /\ LET pid == exec.proposal_id
           source == exec.files[exec.idx].source
           dest == exec.files[exec.idx].destination
           \* the statement that raises: an injected error, or a missing source
           raises == IF fault = "mkdir" THEN "mkdir"
                     ELSE IF ~exists(fs, source) /\ needs_backup(source) THEN "backup"
                     ELSE IF fault = "move" \/ ~exists(fs, source) THEN "move"
                     ELSE IF fault = "log_move" THEN "log_move"
                     ELSE "none"
           killed == /\ fault \in {"kill_after_backup", "kill_after_move"}
                     /\ raises = "none"
           backed == raises \notin {"mkdir", "backup"}
           moved == /\ raises \notin {"mkdir", "backup", "move"}
                    /\ fault # "kill_after_backup"
           logged == moved /\ raises = "none" /\ ~killed
           bk1 == IF backed /\ backup_enabled
                  THEN _backup_file(backups, fs, pid, source) ELSE backups
           a1 == IF logged THEN log_move(Audit, pid, source, dest) ELSE Audit
           a2 == IF raises # "none" /\ ~killed
                 THEN log_execute(a1, pid, exec.files_moved, FALSE) ELSE a1
       IN  /\ backups' = bk1
           /\ fs' = IF moved THEN shutil_move(fs, source, dest) ELSE fs
           /\ disk_moves' = IF moved
                            THEN Append(disk_moves,
                                        [proposal_id |-> pid, source |-> source,
                                         destination |-> dest, bytes |-> fs[source]])
                            ELSE disk_moves
           /\ move_hist' = IF logged
                           THEN Append(move_hist,
                                       [bytes |-> fs[source],
                                        approved |-> db.proposals[pid].user_approved,
                                        mode |-> exec.mode])
                           ELSE move_hist
           /\ db' = a2.db
           /\ jsonl' = a2.jsonl
           /\ exec' = IF logged
                      THEN [exec EXCEPT !.idx = @ + 1, !.files_moved = @ + 1]
                      ELSE IF killed THEN Idle
                      ELSE leave_loop(exec)
           /\ result' = IF logged THEN NoResult
                        ELSE IF killed THEN [NoResult EXCEPT !.op = "killed"]
                        ELSE [NoResult EXCEPT !.op = "execute",
                                              !.count = exec.files_moved]
           /\ state_dir' = IF ~logged /\ ~killed /\ exec.mode \in ScanCommandModes
                           THEN complete_scan(state_dir) ELSE state_dir
    /\ faults' = IF fault = "none" THEN faults ELSE faults + 1
    /\ UNCHANGED sideVars

\* The loop ended: log_execute(.., True) and return (True, files_moved).
ExecuteFinish ==
    /\ exec.active
    /\ exec.idx > Len(exec.files)
    /\ LET a1 == log_execute(Audit, exec.proposal_id, exec.files_moved, TRUE)
       IN  /\ db' = a1.db
           /\ jsonl' = a1.jsonl
    /\ exec' = Idle
    /\ result' = [NoResult EXCEPT !.op = "execute", !.success = TRUE,
                                  !.count = exec.files_moved]
    /\ state_dir' = IF exec.mode \in ScanCommandModes
                    THEN complete_scan(state_dir) ELSE state_dir
    /\ UNCHANGED <<fs, backups, disk_moves, move_hist, faults, sideVars>>

\* SIGINT while execute_proposal is between two files: KeyboardInterrupt is
\* raised in the loop.  It is not an Exception, so the except branch of
\* execute_proposal does not run; no caller handles it by writing anything
\* (scan lets it end the process, the watcher only stops its observer).
Interrupt ==
    /\ exec.active
    /\ 1 < exec.idx
    /\ exec.idx <= Len(exec.files)
    /\ exec' = Idle
    /\ result' = [NoResult EXCEPT !.op = "interrupted",
                                  !.proposal_id = exec.proposal_id,
                                  !.count = exec.files_moved]
    /\ UNCHANGED <<fs, backups, db, jsonl, disk_moves, move_hist, faults,
                   state_dir, sideVars>>

---------------------------------------------------------------------------
\* The command group callback and the dry run (cli/main.py).

\* enter_safe_mode writes recovery_state.json; is_safe_mode reads it first and
\* falls back on the manager's recovery_mode.
enter_safe_mode(file) == "safe_mode"

is_safe_mode(file, recovery_mode) ==
    IF file = "safe_mode" THEN TRUE ELSE recovery_mode = "safe_mode"

\* cli(): flag is --safe-mode, choice the answer to the recovery prompt.  A
\* command whose callback finds no crash and has no flag changes nothing and is
\* the command's action alone.
Cli(flag, choice) ==
    /\ ~exec.active
    /\ LET crash == ~flag /\ detect_crash(state_dir).crash
           sd1 == IF flag THEN state_dir ELSE detect_crash(state_dir).state_dir
           prompted == crash /\ get_interrupted_scan(sd1) # NoState
           file1 == IF prompted /\ choice = 2
                    THEN enter_safe_mode(recovery_state_file)
                    ELSE recovery_state_file
       IN  /\ state_dir' = IF prompted /\ choice = 1 THEN clear_scan_state(sd1)
                           ELSE sd1
           /\ safe_mode' = (flag \/ (prompted /\ choice = 2))
           /\ recovery_state_file' = IF flag /\ ~is_safe_mode(file1, "normal")
                                     THEN enter_safe_mode(file1) ELSE file1
    /\ UNCHANGED <<orgVars, lockVars, recVars, au, utilVars>>

execute_proposal_no_dry_run(proposal_id, pfiles, mode, dry_run) ==
    [exec |-> start_execute(proposal_id, pfiles, mode), result |-> NoResult]

\* execute_proposal(proposal, dry_run) up to the loop: a dry run returns
\* (True, len(proposal.files)) at once.
execute_proposal(proposal_id, pfiles, mode, dry_run) ==
    IF dry_run
    THEN [exec |-> Idle,
          result |-> [NoResult EXCEPT !.op = "execute", !.success = TRUE,
                                      !.count = Len(pfiles)]]
    ELSE [exec |-> start_execute(proposal_id, pfiles, mode), result |-> NoResult]

\* scan <path> --dry-run, with or without --batch.
ScanDryRun(target, ai, batch, answer) ==
    /\ CanScan
    /\ LET files == scan_files(fs, target)
       IN  IF files = << >>
           THEN LET a1 == scan_directory(Audit, fs, target)
                IN  /\ db' = a1.db
                    /\ jsonl' = a1.jsonl
                    /\ exec' = Idle
                    /\ result' = NoResult
                    /\ state_dir' = complete_scan(Started(target, files))
           ELSE \E sug \in Suggestions(ai, files) :
                    LET a2 == Proposed(target, files, ai, sug)
                        pid == Len(a2.db.proposals)
                        pfiles == proposal_files(files, ai, sug)
                        low == low_risk_files(pfiles)
                        a3 == IF batch THEN a2 ELSE log_approval(a2, pid, answer)
                        run == IF batch THEN low # << >> ELSE answer
                        e == execute_proposal(pid, IF batch THEN low ELSE pfiles,
                                              IF batch THEN "batch" ELSE "interactive",
                                              TRUE)
                    IN  /\ db' = a3.db
                        /\ jsonl' = a3.jsonl
                        /\ exec' = IF run THEN e.exec ELSE Idle
                        /\ result' = IF run THEN e.result ELSE NoResult
                        /\ state_dir' = IF run /\ e.exec.active
                                        THEN Started(target, files)
                                        ELSE complete_scan(Started(target, files))
    /\ UNCHANGED <<fs, backups, disk_moves, move_hist, faults, sideVars>>

---------------------------------------------------------------------------
\* RollbackManager (core/rollback.py).

backup_dir_exists(bk, proposal_id) ==
    \E name \in Names : bk[<<proposal_id, name>>] # NoFile

\* The restore loop over the Move rows with the given ids; acc is
\* [fs, files_restored, unresolved].
RECURSIVE restore_moves(_, _, _, _)
restore_moves(bk, rows, ids, acc) ==
    IF ids = << >> THEN acc
    ELSE LET move == rows[Head(ids)]
             original_path == move.original_path
             new_path == move.new_path
             backup_file == <<move.proposal_id, original_path[2]>>
             next ==
                 IF exists(acc.fs, new_path)
                 THEN [acc EXCEPT !.fs = shutil_move(acc.fs, new_path, original_path),
                                  !.files_restored = @ + 1]
                 ELSE IF backup_dir_exists(bk, move.proposal_id)
                         /\ bk[backup_file] # NoFile
                 THEN [acc EXCEPT !.fs = shutil_copy2(acc.fs, bk[backup_file],
                                                      original_path),
                                  !.files_restored = @ + 1]
                 ELSE [acc EXCEPT !.unresolved = @ \cup {Head(ids)}]
         IN  restore_moves(bk, rows, Tail(ids), next)

\* rollback_proposal without the check of the rolled_back column.
already_rolled_back_unchecked(proposal) == FALSE

\* The check "if proposal['rolled_back']" on the fetched row.
already_rolled_back(proposal) == proposal[1].rolled_back

\* rollback_proposal: [fs, audit, success, files_restored, unresolved].
rollback_proposal(f, bk, a, proposal_id) ==
    LET proposal == get_proposal_by_id(a.db, proposal_id)
        moves == get_moves_by_proposal(a.db, proposal_id)
        same == [fs |-> f, audit |-> a, success |-> FALSE, files_restored |-> 0,
                 unresolved |-> {}]
    IN  IF proposal = << >> THEN same
        ELSE IF already_rolled_back(proposal) THEN same
        ELSE IF moves = << >> THEN [same EXCEPT !.success = TRUE]
        ELSE LET r == restore_moves(bk, a.db.moves, moves,
                                    [fs |-> f, files_restored |-> 0, unresolved |-> {}])
                 a1 == [a EXCEPT !.db = mark_proposal_rolled_back(a.db, proposal_id)]
                 a2 == log_rollback(a1, proposal_id, r.files_restored)
             IN  [fs |-> r.fs, audit |-> a2, success |-> TRUE,
                  files_restored |-> r.files_restored, unresolved |-> r.unresolved]

\* The proposal rollback_last picks: the newest approved one not rolled back
\* (0 when there is none).
last_proposal(d) ==
    LET cand == {p \in DOMAIN d.proposals :
                    /\ ~d.proposals[p].rolled_back
                    /\ d.proposals[p].user_approved = "true"}
    IN  IF cand = {} THEN 0 ELSE CHOOSE p \in cand : \A q \in cand : q <= p

DoRollback(proposal_id) ==
    LET r == rollback_proposal(fs, backups, Audit, proposal_id)
    IN  /\ fs' = r.fs
        /\ db' = r.audit.db
        /\ jsonl' = r.audit.jsonl
        /\ result' = [op |-> "rollback", proposal_id |-> proposal_id,
                      success |-> r.success,
                      count |-> r.files_restored, unresolved |-> r.unresolved]
        /\ exec' = Idle
        /\ UNCHANGED <<backups, disk_moves, move_hist, faults, state_dir, sideVars>>

\* rollback --proposal ID
RollbackProposal(proposal_id) ==
    /\ ~exec.active
    /\ DoRollback(proposal_id)

\* rollback --last
RollbackLast ==
    /\ ~exec.active
    /\ IF last_proposal(db) = 0
       THEN /\ result' = [NoResult EXCEPT !.op = "rollback"]
            /\ exec' = Idle
            /\ UNCHANGED <<fs, backups, db, jsonl, disk_moves, move_hist, faults,
                           state_dir, sideVars>>
       ELSE DoRollback(last_proposal(db))

\* The user removes a file from the organized tree, outside the program.
UserDelete(path) ==
    /\ ~exec.active
    /\ faults < MaxFaults
    /\ exists(fs, path)
    /\ fs' = [fs EXCEPT ![path] = NoFile]
    /\ faults' = faults + 1
    /\ result' = NoResult
    /\ exec' = Idle
    /\ UNCHANGED <<backups, db, jsonl, disk_moves, move_hist, state_dir, sideVars>>

---------------------------------------------------------------------------
\* Calls made on the audit trail, the organizer and the rollback manager
\* directly, in any order (the API routes and library users do so).

\* The in-memory proposal rebuilt from the persisted plan.
persisted_files(d, proposal_id) ==
    [i \in 1..Len(d.proposals[proposal_id].plan.files) |->
        [source |-> d.proposals[proposal_id].plan.files[i].source,
         destination |-> d.proposals[proposal_id].plan.files[i].destination]]

\* scan_directory followed by generate_proposal.
ApiPropose(target, ai) ==
    /\ CanScan
    /\ LET files == scan_files(fs, target)
       IN  /\ files # << >>
           /\ \E sug \in Suggestions(ai, files) :
                  LET a2 == Proposed(target, files, ai, sug)
                  IN  /\ db' = a2.db
                      /\ jsonl' = a2.jsonl
    /\ exec' = Idle
    /\ result' = NoResult
    /\ UNCHANGED <<fs, backups, disk_moves, move_hist, faults, state_dir, sideVars>>

\* audit_trail.log_approval(proposal_id, approved)
ApiLogApproval(proposal_id, approved) ==
    /\ ~exec.active
    /\ Len(jsonl) < MaxLog
    /\ LET a1 == log_approval(Audit, proposal_id, approved)
       IN  /\ db' = a1.db
           /\ jsonl' = a1.jsonl
    /\ exec' = Idle
    /\ result' = NoResult
    /\ UNCHANGED <<fs, backups, disk_moves, move_hist, faults, state_dir, sideVars>>

\* organizer.execute_proposal(proposal) on a persisted proposal
ApiExecute(proposal_id) ==
    /\ ~exec.active
    /\ Len(jsonl) < MaxLog
    /\ proposal_id \in DOMAIN db.proposals
    /\ exec' = start_execute(proposal_id, persisted_files(db, proposal_id), "api")
    /\ result' = NoResult
    /\ UNCHANGED <<fs, backups, db, jsonl, disk_moves, move_hist, faults, state_dir, sideVars>>

\* audit_trail.log_rollback(proposal_id, files_restored)
ApiLogRollback(proposal_id, files_restored) ==
    /\ ~exec.active
    /\ Len(jsonl) < MaxLog
    /\ LET a1 == log_rollback(Audit, proposal_id, files_restored)
       IN  /\ db' = a1.db
           /\ jsonl' = a1.jsonl
    /\ exec' = Idle
    /\ result' = NoResult
    /\ UNCHANGED <<fs, backups, disk_moves, move_hist, faults, state_dir, sideVars>>

---------------------------------------------------------------------------
\* The planner and its Suggester (core/organizer.py generate_proposal,
\* ai/ollama_provider.py analyze_files).

\* What the Suggester does when generate_proposal turns to it: there is no
\* provider, the provider is not available, generate raises (connection
\* refused, timeout, any other exception), or it returns a text: empty, not
\* JSON, the JSON value {} (or another falsy value), a JSON object without
\* 'suggestions' and 'overall_confidence', a JSON value that is not an object
\* (a non-empty list), or an object with suggestions.
SuggesterFailures ==
    {"absent", "unavailable", "connection_refused", "timeout", "exception",
     "empty_response", "unparseable", "empty_object", "lacks_fields",
     "not_object"}
SuggesterResponses == SuggesterFailures \cup {"suggestions"}

\* analyze_files: None, or the value json.loads returned.
analyze_files(response) ==
    IF response \in {"connection_refused", "timeout", "exception",
                     "empty_response", "unparseable"}
    THEN "None"
    ELSE response

\* Which branch generate_proposal and _generate_ai_proposal take: the
\* rule-based proposal when there is no available provider or the result is
\* falsy, the AI proposal otherwise.
ai_branch(response) ==
    IF response \in {"absent", "unavailable"} THEN "unavailable"
    ELSE IF analyze_files(response) \in {"None", "empty_object"} THEN "failed"
    ELSE "ok"

\* result.get on a value that is not a dict raises AttributeError.
ai_raises(response) ==
    /\ ai_branch(response) = "ok"
    /\ analyze_files(response) = "not_object"

\* result.get('suggestions', []) of the result.
ai_suggestions(response, files) ==
    IF analyze_files(response) = "suggestions" THEN Suggestions("ok", files)
    ELSE Suggestions("failed", files)

NoSuggester == [response |-> "none", returned |-> FALSE, proposal_id |-> 0]

\* scan_directory and generate_proposal on a directory with files, for each
\* thing the Suggester can do.
GenerateProposal(target, response) ==
    /\ ~exec.active
    /\ Len(db.scans) < MaxPlans
    /\ LET files == scan_files(fs, target)
           a1 == scan_directory(Audit, fs, target)
       IN  /\ files # << >>
           /\ IF ai_raises(response)
              THEN /\ db' = a1.db
                   /\ jsonl' = a1.jsonl
                   /\ sg' = [response |-> response, returned |-> FALSE,
                             proposal_id |-> 0]
              ELSE \E sug \in ai_suggestions(response, files) :
                       LET a2 == generate_proposal(a1, Len(a1.db.scans), files,
                                                   ai_branch(response), sug)
                       IN  /\ db' = a2.db
                           /\ jsonl' = a2.jsonl
                           /\ sg' = [response |-> response, returned |-> TRUE,
                                     proposal_id |-> Len(a2.db.proposals)]
    /\ exec' = Idle
    /\ result' = NoResult
    /\ UNCHANGED <<fs, backups, disk_moves, move_hist, faults, state_dir,
                   lockVars, recVars, cliVars, au, planFrame>>

---------------------------------------------------------------------------
\* The process lock (utils/recovery.py).  Each process runs _try_acquire_lock
\* and _release_lock one file-system call at a time.

NoLock == 0        \* organizer.lock does not exist
EmptyLock == -1    \* it exists and holds no PID (opened for writing, not written)
TextLock == -2     \* it exists and holds text that int() rejects
StalePid == 3      \* the PID of a process that no longer runs
Procs == {1, 2}    \* the PIDs of the live processes

\* A process outside the two functions.  seen and returned are history: the
\* content of the lock file when the last call began and what the call returned.
LockIdle == [pc |-> "idle", pid |-> 0, holds |-> FALSE, seen |-> NoLock,
             returned |-> "none"]

\* What a call that has returned leaves of its frame.
LockReturned(l, holds, returned) ==
    [LockIdle EXCEPT !.holds = holds, !.seen = l.seen, !.returned = returned]

\* os.kill(pid, 0) does not raise.
process_exists_never(pid) == FALSE

process_exists(pid) == pid \in Procs

\* _try_acquire_lock is called.
AcquireStart(self) ==
    /\ UNCHANGED <<orgVars, restVars>>
    /\ lk[self].pc = "idle"
    /\ ~lk[self].holds
    /\ lk' = [lk EXCEPT ![self] = [LockIdle EXCEPT !.pc = "exists",
                                                   !.seen = lock_file]]
    /\ UNCHANGED lock_file

\* if self.lock_file.exists()
AcquireExists(self) ==
    /\ UNCHANGED <<orgVars, restVars>>
    /\ lk[self].pc = "exists"
    /\ lk' = [lk EXCEPT ![self].pc = IF lock_file # NoLock THEN "read" ELSE "create"]
    /\ UNCHANGED lock_file

\* pid = int(f.read().strip()): a missing file raises IOError, an empty one and
\* one that holds no integer ValueError, all handled as a corrupted lock file.
AcquireRead(self) ==
    /\ UNCHANGED <<orgVars, restVars>>
    /\ lk[self].pc = "read"
    /\ lk' = IF lock_file \in {NoLock, EmptyLock, TextLock}
             THEN [lk EXCEPT ![self].pc = "unlink_corrupt"]
             ELSE [lk EXCEPT ![self].pc = "probe", ![self].pid = lock_file]
    /\ UNCHANGED lock_file

\* os.kill(pid, 0): return False when the process runs, else the lock is stale.
AcquireProbe(self) ==
    /\ UNCHANGED <<orgVars, restVars>>
    /\ lk[self].pc = "probe"
    /\ lk' = IF process_exists(lk[self].pid)
             THEN [lk EXCEPT ![self] = LockReturned(lk[self], FALSE, "false")]
             ELSE [lk EXCEPT ![self].pc = "unlink_stale"]
    /\ UNCHANGED lock_file

\* self.lock_file.unlink() for a stale lock; a missing file raises inside the
\* handler, which the handler for corrupted files catches.
AcquireUnlinkStale(self) ==
    /\ UNCHANGED <<orgVars, restVars>>
    /\ lk[self].pc = "unlink_stale"
    /\ IF lock_file = NoLock
       THEN /\ lk' = [lk EXCEPT ![self].pc = "unlink_corrupt"]
            /\ UNCHANGED lock_file
       ELSE /\ lock_file' = NoLock
            /\ lk' = [lk EXCEPT ![self].pc = "create"]

\* self.lock_file.unlink() for a corrupted lock; a missing file raises, the
\* outer handler returns False.
AcquireUnlinkCorrupt(self) ==
    /\ UNCHANGED <<orgVars, restVars>>
    /\ lk[self].pc = "unlink_corrupt"
    /\ IF lock_file = NoLock
       THEN /\ lk' = [lk EXCEPT ![self] = LockReturned(lk[self], FALSE, "false")]
            /\ UNCHANGED lock_file
       ELSE /\ lock_file' = NoLock
            /\ lk' = [lk EXCEPT ![self].pc = "create"]

\* open(self.lock_file, 'w') creates or truncates the file.
AcquireCreate(self) ==
    /\ UNCHANGED <<orgVars, restVars>>
    /\ lk[self].pc = "create"
    /\ lock_file' = EmptyLock
    /\ lk' = [lk EXCEPT ![self].pc = "write"]

\* f.write(str(os.getpid())), close, return True.
AcquireWrite(self) ==
    /\ UNCHANGED <<orgVars, restVars>>
    /\ lk[self].pc = "write"
    /\ lock_file' = self
    /\ lk' = [lk EXCEPT ![self] = LockReturned(lk[self], TRUE, "true")]

\* _release_lock is called by the process that acquired the lock.
ReleaseStart(self) ==
    /\ UNCHANGED <<orgVars, restVars>>
    /\ lk[self].pc = "idle"
    /\ lk[self].holds
    /\ lk' = [lk EXCEPT ![self].pc = "release_exists", ![self].seen = lock_file,
                        ![self].returned = "none"]
    /\ UNCHANGED lock_file

\* _release_lock called by a process whose _try_acquire_lock returned False
\* or that never called it: the function takes no argument and keeps no
\* record of who acquired.
ReleaseWithoutLock(self) ==
    /\ UNCHANGED <<orgVars, restVars>>
    /\ lk[self].pc = "idle"
    /\ ~lk[self].holds
    /\ lk' = [lk EXCEPT ![self].pc = "release_exists", ![self].seen = lock_file,
                        ![self].returned = "none"]
    /\ UNCHANGED lock_file

\* if self.lock_file.exists()
ReleaseExists(self) ==
    /\ UNCHANGED <<orgVars, restVars>>
    /\ lk[self].pc = "release_exists"
    /\ lk' = IF lock_file # NoLock
             THEN [lk EXCEPT ![self].pc = "release_unlink"]
             ELSE [lk EXCEPT ![self] = LockReturned(lk[self], FALSE, "released")]
    /\ UNCHANGED lock_file

\* self.lock_file.unlink(); an error is logged.
ReleaseUnlink(self) ==
    /\ UNCHANGED <<orgVars, restVars>>
    /\ lk[self].pc = "release_unlink"
    /\ lock_file' = NoLock
    /\ lk' = [lk EXCEPT ![self] = LockReturned(lk[self], FALSE, "released")]

---------------------------------------------------------------------------
\* AuditTrail.log_scan, log_propose, log_approval and log_rollback statement by
\* statement (audit/trail.py).  au is the call in progress: the statement it
\* stands at, the record it writes, and the scan_id argument of log_propose.
\* The calls are made as the call sites make them: log_propose for a scan that
\* exists, log_approval for a proposal not yet answered, log_rollback for a
\* proposal that rollback_proposal found not rolled back.

AuIdle == [step |-> 0, action |-> "none", id |-> 0, n |-> 0, ok |-> FALSE,
           scan_id |-> 0]

auVars == <<fs, backups, exec, result, disk_moves, move_hist, faults, lockVars,
            state_dir, recVars, cliVars, utilVars>>

log_steps_jsonl_first == <<"jsonl", "sqlite">>

\* The order of the two writes in each log_* function.
log_steps == <<"sqlite", "jsonl">>

\* The plan the calls of log_propose are given.
AuPlan ==
    to_dict(_generate_rule_based_proposal(scan_files(fs, "in1")),
            RuleConfidence, "Rule-based organization")

AuLogScan(file_count) ==
    /\ au.step = 0
    /\ Len(db.scans) < MaxScans
    /\ Len(jsonl) < MaxLog
    /\ au' = [step |-> 1, action |-> "scan", id |-> Len(db.scans) + 1,
              n |-> file_count, ok |-> TRUE, scan_id |-> 0]
    /\ UNCHANGED <<auVars, db, jsonl>>

AuLogPropose(scan_id) ==
    /\ au.step = 0
    /\ scan_id \in DOMAIN db.scans
    /\ Len(db.proposals) < MaxScans
    /\ Len(jsonl) < MaxLog
    /\ au' = [step |-> 1, action |-> "propose", id |-> Len(db.proposals) + 1,
              n |-> RuleConfidence, ok |-> TRUE, scan_id |-> scan_id]
    /\ UNCHANGED <<auVars, db, jsonl>>

AuLogApproval(proposal_id, approved) ==
    /\ au.step = 0
    /\ proposal_id \in DOMAIN db.proposals
    /\ db.proposals[proposal_id].user_approved = "null"
    /\ Len(jsonl) < MaxLog
    /\ au' = [step |-> 1, action |-> "approval", id |-> proposal_id, n |-> 0,
              ok |-> approved, scan_id |-> 0]
    /\ UNCHANGED <<auVars, db, jsonl>>

AuLogRollback(proposal_id, files_restored) ==
    /\ au.step = 0
    /\ proposal_id \in DOMAIN db.proposals
    /\ ~already_rolled_back(get_proposal_by_id(db, proposal_id))
    /\ Len(jsonl) < MaxLog
    /\ au' = [step |-> 1, action |-> "rollback", id |-> proposal_id,
              n |-> files_restored, ok |-> TRUE, scan_id |-> 0]
    /\ UNCHANGED <<auVars, db, jsonl>>

\* The relational write of the call: add_scan, add_proposal,
\* update_proposal_approval or mark_proposal_rolled_back.
au_sqlite(d, call) ==
    IF call.action = "scan" THEN add_scan(d, "in1", call.n)
    ELSE IF call.action = "propose"
    THEN add_proposal(d, call.scan_id, AuPlan, call.n)
    ELSE IF call.action = "approval"
    THEN update_proposal_approval(d, call.id, call.ok)
    ELSE mark_proposal_rolled_back(d, call.id)

AuNext(call) == IF call.step = Len(log_steps) THEN AuIdle
                ELSE [call EXCEPT !.step = @ + 1]

AuSqlite ==
    /\ au.step # 0
    /\ log_steps[au.step] = "sqlite"
    /\ db' = au_sqlite(db, au)
    /\ au' = AuNext(au)
    /\ UNCHANGED <<auVars, jsonl>>

\* The relational write raises; the exception leaves the log_* function.
AuSqliteFail ==
    /\ au.step # 0
    /\ log_steps[au.step] = "sqlite"
    /\ au' = AuIdle
    /\ UNCHANGED <<auVars, db, jsonl>>

AuJsonl ==
    /\ au.step # 0
    /\ log_steps[au.step] = "jsonl"
    /\ jsonl' = _write_jsonl(jsonl, [action |-> au.action, id |-> au.id,
                                     n |-> au.n, ok |-> au.ok])
    /\ au' = AuNext(au)
    /\ UNCHANGED <<auVars, db>>

\* The process is killed between the two writes.
AuKill ==
    /\ au.step # 0
    /\ au' = AuIdle
    /\ UNCHANGED <<auVars, db, jsonl>>

---------------------------------------------------------------------------
\* retry_with_backoff (utils/retry.py), one loop iteration per step.

MaxAttempts == 3

\* The errors the wrapped function can raise: an OrganizerError with its
\* category, or another exception with its type name and whether its message
\* holds one of the retryable indicators.
RetryErrors ==
    {[organizer |-> TRUE, category |-> "CONNECTION", name |-> "ConnectionError",
      indicator |-> FALSE],
     [organizer |-> TRUE, category |-> "VALIDATION", name |-> "ValidationError",
      indicator |-> TRUE],
     [organizer |-> FALSE, category |-> "", name |-> "TimeoutError",
      indicator |-> FALSE],
     [organizer |-> FALSE, category |-> "", name |-> "ValueError",
      indicator |-> TRUE],
     [organizer |-> FALSE, category |-> "", name |-> "ValueError",
      indicator |-> FALSE]}

NoError == [organizer |-> FALSE, category |-> "", name |-> "", indicator |-> FALSE]

RuntimeError == [organizer |-> FALSE, category |-> "", name |-> "RuntimeError",
                 indicator |-> FALSE]

\* OrganizerError.is_network_error (utils/errors.py).
is_network_error(e) == e.category \in {"CONNECTION", "TIMEOUT", "OFFLINE"}

is_retryable_error(e) ==
    IF e.organizer THEN is_network_error(e)
    ELSE IF e.name \in {"ConnectionError", "TimeoutError", "OSError"} THEN TRUE
    ELSE e.indicator

\* The wrapper's frame: the config, the loop variable, last_error, what it did
\* so far (the calls of func with their outcome, the calls of on_retry) and how
\* it ended.
NoRetry == [pc |-> "idle", max_attempts |-> 0, idempotent |-> TRUE, attempt |-> 0,
            last_error |-> NoError, events |-> << >>, outcome |-> "none",
            value |-> 0, error |-> NoError]

\* max_attempts = config.max_attempts if config.idempotent else 1
loop_attempts(r) == IF r.idempotent THEN r.max_attempts ELSE 1

\* Whether the except branch re-raises instead of going on to on_retry.
reraises(r, e) ==
    \/ ~is_retryable_error(e)
    \/ r.attempt >= r.max_attempts - 1

\* The except branch of the loop body, func having raised e: re-raise, or
\* call on_retry, sleep and go on with the next attempt.
except_branch_no_callback(r, e) ==
    IF reraises(r, e)
    THEN [r EXCEPT !.pc = "done", !.outcome = "raised", !.error = e,
                   !.last_error = e]
    ELSE [r EXCEPT !.attempt = @ + 1, !.last_error = e]

except_branch(r, e) ==
    IF reraises(r, e)
    THEN [r EXCEPT !.pc = "done", !.outcome = "raised", !.error = e,
                   !.last_error = e]
    ELSE [r EXCEPT !.attempt = @ + 1, !.last_error = e,
                   !.events = Append(@, [kind |-> "on_retry", attempt |-> r.attempt,
                                         error |-> e])]

\* The wrapper is called with a config and an on_retry callback.
RetryStart(max_attempts, idempotent) ==
    /\ rt.pc = "idle"
    /\ rt' = [NoRetry EXCEPT !.pc = "loop", !.max_attempts = max_attempts,
                             !.idempotent = idempotent]
    /\ UNCHANGED retryFrame

\* One iteration of the for loop in which func returns its value: the value of
\* the k-th call is k.
RetryReturn ==
    /\ rt.pc = "loop"
    /\ rt.attempt < loop_attempts(rt)
    /\ rt' = [rt EXCEPT !.pc = "done", !.outcome = "returned",
                        !.value = rt.attempt + 1,
                        !.events = Append(@, [kind |-> "call", attempt |-> rt.attempt,
                                              error |-> NoError])]
    /\ UNCHANGED retryFrame

\* One iteration in which func raises e.
RetryRaise(e) ==
    /\ rt.pc = "loop"
    /\ rt.attempt < loop_attempts(rt)
    /\ rt' = except_branch([rt EXCEPT !.events =
                                 Append(@, [kind |-> "call", attempt |-> rt.attempt,
                                            error |-> e])], e)
    /\ UNCHANGED retryFrame

\* The statements after the loop.
RetryLoopEnd ==
    /\ rt.pc = "loop"
    /\ rt.attempt >= loop_attempts(rt)
    /\ rt' = [rt EXCEPT !.pc = "done", !.outcome = "raised",
                        !.error = IF rt.last_error # NoError THEN rt.last_error
                                  ELSE RuntimeError]
    /\ UNCHANGED retryFrame

---------------------------------------------------------------------------
\* ConnectionMonitor (utils/retry.py).  A queued operation is named by the
\* number of its queue_operation call; log records, in order, each operation
\* the monitor called, whether it returned, and during which check.

MaxOps == 3
MaxChecks == 5

monitorFrame == <<coreVars, sg, rt, rd, rk, sc, sn, wb, dp>>

NoMonitor == [state |-> "online", pending |-> << >>, log |-> << >>, queued |-> 0,
              checks |-> 0]

_handle_offline(m) ==
    IF m.state = "online" THEN [m EXCEPT !.state = "offline"] ELSE m

\* _process_pending_operations: fails are the positions of the operations that
\* raise.
_process_pending_operations_drop_failed(m, fails) ==
    LET ran == [i \in 1..Len(m.pending) |->
                   [op |-> m.pending[i], ok |-> i \notin fails, check |-> m.checks]]
    IN  [m EXCEPT !.log = @ \o ran, !.pending = << >>]

_process_pending_operations(m, fails) ==
    LET ran == [i \in 1..Len(m.pending) |->
                   [op |-> m.pending[i], ok |-> i \notin fails, check |-> m.checks]]
        Failed(e) == ~e.ok
        failed_operations == SelectSeq(ran, Failed)
    IN  [m EXCEPT !.log = @ \o ran,
                  !.pending = [i \in 1..Len(failed_operations) |->
                                  failed_operations[i].op]]

\* check_connectivity: test is what test_func does.
check_connectivity(m, test, fails) ==
    IF test = "true"
    THEN IF m.state # "online"
         THEN _process_pending_operations([m EXCEPT !.state = "online"], fails)
         ELSE m
    ELSE _handle_offline(m)

queue_operation(m) ==
    [m EXCEPT !.pending = Append(@, m.queued + 1), !.queued = @ + 1]

QueueOperation ==
    /\ cm.queued < MaxOps
    /\ cm' = queue_operation(cm)
    /\ UNCHANGED monitorFrame

\* A function under with_connection_check(queue_on_failure = True) is called:
\* queued when the monitor is offline, run at once otherwise.
CheckedCall ==
    /\ cm.queued < MaxOps
    /\ cm.state = "offline"
    /\ cm' = queue_operation(cm)
    /\ UNCHANGED monitorFrame

CheckConnectivity(test) ==
    /\ cm.checks < MaxChecks
    /\ \E fails \in SUBSET (1..Len(cm.pending)) :
           cm' = check_connectivity([cm EXCEPT !.checks = @ + 1], test, fails)
    /\ UNCHANGED monitorFrame

---------------------------------------------------------------------------
\* Texts and regular expressions (the re patterns of utils/redaction.py).  A
\* text is a sequence of characters.  A pattern is a sequence of elements: a
\* word boundary, or a character class (given by its characters, or by the
\* ones it excludes) with the least and the most repetitions, 0 standing for
\* no upper limit.  Repetitions are greedy and give characters back, as in re.

Digits == {"0", "1", "2", "3", "4", "5", "6", "7", "8", "9"}
LowerSeq == <<"a", "b", "c", "d", "e", "f", "g", "h", "i", "j", "k", "l", "m",
              "n", "o", "p", "q", "r", "s", "t", "u", "v", "w", "x", "y", "z">>
UpperSeq == <<"A", "B", "C", "D", "E", "F", "G", "H", "I", "J", "K", "L", "M",
              "N", "O", "P", "Q", "R", "S", "T", "U", "V", "W", "X", "Y", "Z">>
Lowers == {LowerSeq[i] : i \in DOMAIN LowerSeq}
Uppers == {UpperSeq[i] : i \in DOMAIN UpperSeq}
Alnum == Digits \cup Lowers \cup Uppers
WordChars == Alnum \cup {"_"}
Space == {" ", "\n", "\t"}

\* The two cases of a letter, for patterns compiled with (?i) or IGNORECASE.
BothCases(c) ==
    {c} \cup {LowerSeq[i] : i \in {j \in DOMAIN UpperSeq : UpperSeq[j] = c}}
        \cup {UpperSeq[i] : i \in {j \in DOMAIN LowerSeq : LowerSeq[j] = c}}

Boundary == [kind |-> "b", cls |-> {}, neg |-> FALSE, min |-> 0, max |-> 0]
Class(cls, min, max) ==
    [kind |-> "cls", cls |-> cls, neg |-> FALSE, min |-> min, max |-> max]
NotClass(cls, min, max) ==
    [kind |-> "cls", cls |-> cls, neg |-> TRUE, min |-> min, max |-> max]
Literal(s) == [i \in 1..Len(s) |-> Class({s[i]}, 1, 1)]
LiteralAnyCase(s) == [i \in 1..Len(s) |-> Class(BothCases(s[i]), 1, 1)]

InClass(c, e) == (c \in e.cls) # e.neg

\* \b: exactly one of the characters before and at pos is a word character.
IsBoundary(text, pos) ==
    LET before == pos > 1 /\ text[pos - 1] \in WordChars
        after == pos <= Len(text) /\ text[pos] \in WordChars
    IN  before # after

\* The least and the greatest element of a non-empty set of numbers.
Least(S) == CHOOSE x \in S : \A y \in S : x <= y
Greatest(S) == CHOOSE x \in S : \A y \in S : x >= y

\* The number of characters from pos on that are in the class of e, at most
\* e.max of them.
Run(text, pos, e) ==
    IF pos > Len(text) THEN 0
    ELSE IF ~InClass(text[pos], e) THEN 0
    ELSE LET last == IF e.max # 0 /\ pos + e.max - 1 < Len(text)
                     THEN pos + e.max - 1 ELSE Len(text)
         IN  Cardinality({j \in pos..last : \A i \in pos..j : InClass(text[i], e)})

\* re's match of the elements i.. of pat at pos: the position after the match,
\* or 0 when there is none.  A repetition takes the most characters with which
\* the rest of the pattern still matches.
RECURSIVE MatchFrom(_, _, _, _)
MatchFrom(pat, text, i, pos) ==
    IF i > Len(pat) THEN pos
    ELSE IF pat[i].kind = "b"
    THEN IF IsBoundary(text, pos) THEN MatchFrom(pat, text, i + 1, pos) ELSE 0
    ELSE LET fits == {k \in pat[i].min..Run(text, pos, pat[i]) :
                         MatchFrom(pat, text, i + 1, pos + k) # 0}
         IN  IF fits = {} THEN 0
             ELSE MatchFrom(pat, text, i + 1, pos + Greatest(fits))

\* The first of the alternatives that matches at pos, as [alt, end], alt = 0
\* when none does.
RECURSIVE MatchAlternatives(_, _, _, _)
MatchAlternatives(alts, text, pos, a) ==
    IF a > Len(alts) THEN [alt |-> 0, end |-> 0]
    ELSE LET r == MatchFrom(alts[a], text, 1, pos)
         IN  IF r # 0 THEN [alt |-> a, end |-> r]
             ELSE MatchAlternatives(alts, text, pos, a + 1)

\* The positions at which the pattern matches.
MatchStarts(alts, text) ==
    {pos \in 1..Len(text) : MatchAlternatives(alts, text, pos, 1).alt # 0}

\* pattern.search(text)
search(alts, text) == MatchStarts(alts, text) # {}

Stars(n) == [i \in 1..n |-> "*"]

\* _redact_email: ****@ and the domain.
_redact_email(email) ==
    LET ats == {i \in DOMAIN email : email[i] = "@"}
    IN  IF ats # {}
        THEN Stars(4) \o <<"@">> \o SubSeq(email, Least(ats) + 1, Len(email))
        ELSE Stars(4)

\* The replacement of a match: a fixed text, the email callback, or \1: ****
\* where group 1 is the keyword of the alternative that matched.
Replacement(repl, matched, alt) ==
    CASE repl.kind = "text" -> repl.text
      [] repl.kind = "email" -> _redact_email(matched)
      [] repl.kind = "group1" -> SubSeq(matched, 1, repl.group[alt]) \o repl.text

\* pattern.sub(repl, text): the matches from left to right, not overlapping.
RECURSIVE SubFrom(_, _, _, _, _)
SubFrom(alts, repl, text, starts, pos) ==
    LET ahead == {p \in starts : p >= pos}
    IN  IF ahead = {} THEN SubSeq(text, pos, Len(text))
        ELSE LET p == Least(ahead)
                 m == MatchAlternatives(alts, text, p, 1)
             IN  SubSeq(text, pos, p - 1)
                     \o Replacement(repl, SubSeq(text, p, m.end - 1), m.alt)
                     \o SubFrom(alts, repl, text, starts, m.end)

sub(alts, repl, text) == SubFrom(alts, repl, text, MatchStarts(alts, text), 1)

Text(t) == [kind |-> "text", text |-> t, group |-> << >>]

---------------------------------------------------------------------------
\* SensitiveDataRedactor (utils/redaction.py).

min_api_key_length == 40

SSN_PATTERN ==
    << <<Boundary, Class(Digits, 3, 3), Class({"-"}, 1, 1), Class(Digits, 2, 2),
         Class({"-"}, 1, 1), Class(Digits, 4, 4), Boundary>> >>

CREDIT_CARD_PATTERN ==
    LET sep == Class({"-"} \cup Space, 0, 1)
        four == Class(Digits, 4, 4)
    IN  << <<Boundary, four, sep, four, sep, four, sep, four, Boundary>> >>

EMAIL_PATTERN ==
    << <<Boundary, Class(Alnum \cup {".", "_", "%", "+", "-"}, 1, 0),
         Class({"@"}, 1, 1), Class(Alnum \cup {".", "-"}, 1, 0),
         Class({"."}, 1, 1), Class(Lowers \cup Uppers \cup {"|"}, 2, 0),
         Boundary>> >>

PHONE_PATTERN ==
    LET sep == Class({"-", "."}, 0, 1)
    IN  << <<Boundary, Class(Digits, 3, 3), sep, Class(Digits, 3, 3), sep,
             Class(Digits, 4, 4), Boundary>> >>

API_KEY_PATTERN ==
    << <<Boundary, Class(Alnum, min_api_key_length, 0), Boundary>> >>

PasswordKeywords ==
    << <<"p", "a", "s", "s", "w", "o", "r", "d">>,
       <<"p", "a", "s", "s", "w", "d">>,
       <<"p", "w", "d">> >>

PASSWORD_PATTERN ==
    [a \in DOMAIN PasswordKeywords |->
        LiteralAnyCase(PasswordKeywords[a])
            \o <<Class(Space \cup {":", "="}, 1, 0), NotClass(Space, 1, 0)>>]

UsersPath == <<"/", "U", "s", "e", "r", "s", "/">>
HomePath == <<"/", "h", "o", "m", "e", "/">>
WindowsUsersPath == <<"C", ":", "\\", "U", "s", "e", "r", "s", "\\">>

_redact_usernames(text) ==
    LET t1 == sub(<< Literal(UsersPath)
                        \o <<NotClass({"/"}, 1, 0), Class({"/"}, 1, 1)>> >>,
                  Text(UsersPath \o Stars(4) \o <<"/">>), text)
        t2 == sub(<< Literal(HomePath)
                        \o <<NotClass({"/"}, 1, 0), Class({"/"}, 1, 1)>> >>,
                  Text(HomePath \o Stars(4) \o <<"/">>), t1)
    IN  sub(<< LiteralAnyCase(WindowsUsersPath)
                  \o <<NotClass({"\\"}, 1, 0), Class({"\\"}, 1, 1)>> >>,
            Text(WindowsUsersPath \o Stars(4) \o <<"\\">>), t2)

redact(enabled, text) ==
    IF ~enabled THEN text
    ELSE LET t1 == sub(SSN_PATTERN, Text(<<"*", "*", "*", "-", "*", "*", "-",
                                           "*", "*", "*", "*">>), text)
             t2 == sub(CREDIT_CARD_PATTERN,
                       Text(<<"*", "*", "*", "*", "-", "*", "*", "*", "*", "-",
                              "*", "*", "*", "*", "-", "*", "*", "*", "*">>), t1)
             t3 == sub(EMAIL_PATTERN,
                       [kind |-> "email", text |-> << >>, group |-> << >>], t2)
             t4 == sub(PHONE_PATTERN,
                       Text(<<"*", "*", "*", "-", "*", "*", "*", "-",
                              "*", "*", "*", "*">>), t3)
             t5 == sub(API_KEY_PATTERN, Text(Stars(4)), t4)
             t6 == sub(PASSWORD_PATTERN,
                       [kind |-> "group1", text |-> <<":", " ">> \o Stars(4),
                        group |-> [a \in DOMAIN PasswordKeywords |->
                                      Len(PasswordKeywords[a])]], t5)
         IN  _redact_usernames(t6)

\* detect_sensitive_content: the pattern types found, in the order reported.
detect_sensitive_content(text) ==
    LET Found(t) ==
            CASE t = "SSN" -> search(SSN_PATTERN, text)
              [] t = "CreditCard" -> search(CREDIT_CARD_PATTERN, text)
              [] t = "Email" -> search(EMAIL_PATTERN, text)
              [] t = "Phone" -> search(PHONE_PATTERN, text)
              [] t = "APIKey" -> search(API_KEY_PATTERN, text)
              [] t = "Password" -> search(PASSWORD_PATTERN, text)
    IN  SelectSeq(<<"SSN", "CreditCard", "Email", "Phone", "APIKey", "Password">>,
                  Found)

\* The pieces the checked texts are made of: one match of each pattern, the
\* tail of a second email address, a blank and a letter.
Fragment(t) ==
    CASE t = "SSN" -> <<"1", "2", "3", "-", "4", "5", "-", "6", "7", "8", "9">>
      [] t = "CreditCard" -> <<"4", "1", "1", "1", "-", "1", "1", "1", "1", "-",
                               "1", "1", "1", "1", "-", "1", "1", "1", "1">>
      [] t = "Email" -> <<"a", "@", "b", ".", "c", "c">>
      [] t = "Phone" -> <<"5", "5", "5", "-", "1", "2", "3", "-",
                          "4", "5", "6", "7">>
      [] t = "APIKey" -> [i \in 1..min_api_key_length |-> "k"]
      [] t = "Password" -> <<"P", "w", "d", "=", "s", "3">>
      [] t = "Username" -> UsersPath \o <<"a", "l", "/">>
      [] t = "EmailTail" -> <<"@", "d", ".", "e", "e">>
      [] t = "Blank" -> <<" ">>
      [] t = "Letter" -> <<"x">>

PatternTypes == <<"SSN", "CreditCard", "Email", "Phone", "APIKey", "Password">>
FragmentTypes ==
    {PatternTypes[i] : i \in DOMAIN PatternTypes}
        \cup {"Username", "EmailTail", "Blank", "Letter"}

MaxFragments == 2

RECURSIVE TextsOf(_)
TextsOf(n) ==
    IF n = 0 THEN {<< >>}
    ELSE LET shorter == TextsOf(n - 1)
         IN  shorter \cup {t \o Fragment(f) : t \in shorter, f \in FragmentTypes}

redactFrame == <<coreVars, sg, rt, cm, rk, sc, sn, wb, dp>>

NoRedaction == [text |-> << >>, enabled |-> TRUE, once |-> << >>, twice |-> << >>,
                pc |-> "text"]

RedactionInputs ==
    {[NoRedaction EXCEPT !.text = t, !.enabled = e] :
        t \in TextsOf(MaxFragments), e \in BOOLEAN}

\* redact(x)
Redact ==
    /\ rd.pc = "text"
    /\ rd' = [rd EXCEPT !.once = redact(rd.enabled, rd.text), !.pc = "once"]
    /\ UNCHANGED redactFrame

\* redact(redact(x))
RedactAgain ==
    /\ rd.pc = "once"
    /\ rd' = [rd EXCEPT !.twice = redact(rd.enabled, rd.once), !.pc = "twice"]
    /\ UNCHANGED redactFrame

---------------------------------------------------------------------------
\* RiskAssessor (analysis/risk.py).

LOW_RISK_MAX == 30
MEDIUM_RISK_MAX == 70
LargeFileBytes == 500 * 1024 * 1024
SYSTEM_EXTENSIONS == {".dll", ".sys", ".exe", ".so", ".dylib"}
RecentHours == 24

\* file_path.suffix.lower() of the suffixes of the model.
suffix_lower(suffix) == IF suffix = ".DLL" THEN ".dll" ELSE suffix

RECURSIVE SumSeq(_)
SumSeq(s) == IF s = << >> THEN 0 ELSE Head(s) + SumSeq(Tail(s))

sensitive_delta(pattern_type) ==
    IF pattern_type \in {"SSN", "CreditCard"} THEN 40
    ELSE IF pattern_type \in {"Password", "APIKey"} THEN 50
    ELSE IF pattern_type \in {"Email", "Phone"} THEN 10
    ELSE 0

\* mtime: whether the path exists, whether stat succeeds, and now - mtime in
\* hours.
recently_modified(mtime) ==
    mtime.exists /\ mtime.stat_ok /\ mtime.age_hours < RecentHours

calculate_risk_score_uncapped(content, file_size, suffix, mtime) ==
    LET sensitive == IF content # << >> THEN detect_sensitive_content(content)
                     ELSE << >>
    IN  SumSeq([i \in DOMAIN sensitive |-> sensitive_delta(sensitive[i])])
            + (IF file_size > LargeFileBytes THEN 10 ELSE 0)
            + (IF suffix_lower(suffix) \in SYSTEM_EXTENSIONS THEN 30 ELSE 0)
            + (IF recently_modified(mtime) THEN 20 ELSE 0)

calculate_risk_score(content, file_size, suffix, mtime) ==
    LET sensitive == IF content # << >> THEN detect_sensitive_content(content)
                     ELSE << >>
        score == SumSeq([i \in DOMAIN sensitive |-> sensitive_delta(sensitive[i])])
                     + (IF file_size > LargeFileBytes THEN 10 ELSE 0)
                     + (IF suffix_lower(suffix) \in SYSTEM_EXTENSIONS THEN 30 ELSE 0)
                     + (IF recently_modified(mtime) THEN 20 ELSE 0)
    IN  IF score < 100 THEN score ELSE 100

get_risk_level(score) ==
    IF score <= LOW_RISK_MAX THEN "low"
    ELSE IF score <= MEDIUM_RISK_MAX THEN "medium"
    ELSE "high"

\* The preview of a file holding one match of each pattern type in types, and
\* a second SSN when repeated, each on a line of its own.
RECURSIVE PreviewOf(_, _)
PreviewOf(types, i) ==
    IF i > Len(PatternTypes) THEN << >>
    ELSE (IF PatternTypes[i] \in types
          THEN Fragment(PatternTypes[i]) \o <<"\n">> ELSE << >>)
             \o PreviewOf(types, i + 1)

Preview(types, repeated) ==
    IF repeated THEN PreviewOf(types, 1) \o Fragment("SSN")
    ELSE PreviewOf(types, 1)

riskFrame == <<coreVars, sg, rt, cm, rd, sc, sn, wb, dp>>

NoRisk == [types |-> {}, repeated |-> FALSE, file_size |-> 0, suffix |-> "",
           mtime |-> [exists |-> FALSE, stat_ok |-> FALSE, age_hours |-> 0],
           score |-> 0, level |-> "", pc |-> "file"]

Mtimes ==
    {[exists |-> FALSE, stat_ok |-> FALSE, age_hours |-> 0],
     [exists |-> TRUE, stat_ok |-> FALSE, age_hours |-> 0],
     [exists |-> TRUE, stat_ok |-> TRUE, age_hours |-> 23],
     [exists |-> TRUE, stat_ok |-> TRUE, age_hours |-> 24]}

RiskInputs ==
    {[NoRisk EXCEPT !.types = tr[1], !.repeated = tr[2], !.file_size = file_size,
                    !.suffix = suffix, !.mtime = mtime] :
        tr \in {x \in (SUBSET {PatternTypes[i] : i \in DOMAIN PatternTypes})
                           \X BOOLEAN : x[2] => "SSN" \in x[1]},
        file_size \in {LargeFileBytes, LargeFileBytes + 1},
        suffix \in {".txt", ".DLL"},
        mtime \in Mtimes}

CalculateRiskScore ==
    /\ rk.pc = "file"
    /\ rk' = [rk EXCEPT !.score = calculate_risk_score(
                                      Preview(rk.types, rk.repeated), rk.file_size,
                                      rk.suffix, rk.mtime),
                        !.pc = "score"]
    /\ UNCHANGED riskFrame

GetRiskLevel ==
    /\ rk.pc = "score"
    /\ rk' = [rk EXCEPT !.level = get_risk_level(rk.score), !.pc = "level"]
    /\ UNCHANGED riskFrame

---------------------------------------------------------------------------

---------------------------------------------------------------------------
\* The scan command statement by statement (cli/main.py scan) and the check
\* the next start of the program makes.  sc is the command's position: the
\* statement it stands at, the files scan_directory has analysed so far, and
\* how the process ended.

scanFrame == <<lockVars, rm, rec_hist, cliVars, au, sg, rt, cm, rd, rk, sn, wb, dp>>

NoScanCmd == [pc |-> "idle", target |-> "", analysed |-> 0, ended |-> "none",
              at |-> "none"]

\* organizer.scan_directory(Path(path), recursive) is entered.
ScanCmdEnter(target) ==
    /\ sc.pc = "idle"
    /\ CanScan
    /\ sc' = [NoScanCmd EXCEPT !.pc = "scan_directory", !.target = target]
    /\ UNCHANGED <<orgVars, state_dir, rec_result, scanFrame>>

\* Scanner.scan analyses one more file.
ScanCmdAnalyse ==
    /\ sc.pc = "scan_directory"
    /\ sc.analysed < Len(scan_files(fs, sc.target))
    /\ sc' = [sc EXCEPT !.analysed = @ + 1]
    /\ UNCHANGED <<orgVars, state_dir, rec_result, scanFrame>>

\* scan_directory writes the Scan row and returns (scan_id, files).
ScanCmdScanned ==
    /\ sc.pc = "scan_directory"
    /\ sc.analysed = Len(scan_files(fs, sc.target))
    /\ LET a1 == scan_directory(Audit, fs, sc.target)
       IN  db' = a1.db /\ jsonl' = a1.jsonl
    /\ sc' = [sc EXCEPT !.pc = "start_scan"]
    /\ UNCHANGED <<fs, backups, exec, result, disk_moves, move_hist, faults,
                   state_dir, rec_result, scanFrame>>

\* recovery_mgr.start_scan(scan_id, str(path), len(files)); without files the
\* command calls complete_scan and returns.
ScanCmdStartScan ==
    /\ sc.pc = "start_scan"
    /\ LET files == scan_files(fs, sc.target)
           started == start_scan(state_dir, Len(db.scans), sc.target, Len(files))
       IN  IF files = << >>
           THEN /\ state_dir' = complete_scan(started)
                /\ sc' = [sc EXCEPT !.pc = "ended", !.ended = "returned"]
           ELSE /\ state_dir' = started
                /\ sc' = [sc EXCEPT !.pc = "generate_proposal"]
    /\ UNCHANGED <<orgVars, rec_result, scanFrame>>

\* generate_proposal and the user's answer; a refusal ends the command with
\* complete_scan, an approval enters execute_proposal.
ScanCmdAnswer(ai, answer) ==
    /\ sc.pc = "generate_proposal"
    /\ LET files == scan_files(fs, sc.target)
       IN  \E sug \in Suggestions(ai, files) :
               LET a2 == generate_proposal(Audit, Len(db.scans), files, ai, sug)
                   pid == Len(a2.db.proposals)
                   a3 == log_approval(a2, pid, answer)
               IN  /\ db' = a3.db
                   /\ jsonl' = a3.jsonl
                   /\ exec' = IF answer
                              THEN start_execute(pid, proposal_files(files, ai, sug),
                                                 "interactive")
                              ELSE Idle
                   /\ state_dir' = IF answer THEN state_dir
                                   ELSE complete_scan(state_dir)
                   /\ sc' = IF answer THEN [sc EXCEPT !.pc = "execute_proposal"]
                            ELSE [sc EXCEPT !.pc = "ended", !.ended = "returned"]
    /\ UNCHANGED <<fs, backups, result, disk_moves, move_hist, faults,
                   rec_result, scanFrame>>

\* execute_proposal has returned and complete_scan was called.
ScanCmdReturn ==
    /\ sc.pc = "execute_proposal"
    /\ ~exec.active
    /\ sc' = [sc EXCEPT !.pc = "ended", !.ended = "returned"]
    /\ UNCHANGED <<orgVars, state_dir, rec_result, scanFrame>>

\* The statements at which the command can be between the beginning of
\* enumeration and complete_scan.
ScanCmdRunning ==
    \/ sc.pc \in {"scan_directory", "start_scan", "generate_proposal"}
    \/ sc.pc = "execute_proposal" /\ exec.active

\* The process is killed.
ScanCmdKill ==
    /\ ScanCmdRunning
    /\ sc' = [sc EXCEPT !.pc = "ended", !.ended = "killed", !.at = sc.pc]
    /\ exec' = Idle
    /\ UNCHANGED <<fs, backups, db, jsonl, result, disk_moves, move_hist, faults,
                   state_dir, rec_result, scanFrame>>

\* scan_directory or generate_proposal raises: the except branch of the
\* command calls record_crash, which appends to crash_log.jsonl and leaves
\* current_scan.json alone, and the process exits with status 1.
ScanCmdError ==
    /\ sc.pc \in {"scan_directory", "generate_proposal"}
    /\ sc' = [sc EXCEPT !.pc = "ended", !.ended = "error", !.at = sc.pc]
    /\ UNCHANGED <<orgVars, state_dir, rec_result, scanFrame>>

\* The next start of the program: the command group callback calls
\* detect_crash.
ScanCmdNextStart ==
    /\ sc.pc = "ended"
    /\ rec_result' = [rec_result EXCEPT
                        !.detected = IF detect_crash(state_dir).crash
                                     THEN "true" ELSE "false"]
    /\ state_dir' = detect_crash(state_dir).state_dir
    /\ sc' = [sc EXCEPT !.pc = "next_start"]
    /\ UNCHANGED <<orgVars, scanFrame>>

---------------------------------------------------------------------------
\* Scanner.scan (analysis/scanner.py) inside Organizer.scan_directory.

scannerFrame == <<fs, backups, exec, result, disk_moves, move_hist, faults,
                  lockVars, state_dir, recVars, cliVars, au, sg, rt, cm, rd, rk,
                  sc, wb, dp>>

\* A path part: whether it begins with a dot, and the rest of it.
Part(dot, stem) == [dot |-> dot, stem |-> stem]

\* The tree under the scanned directory, in the order glob yields it.  An
\* entry is its parts below the directory and whether it is a directory.
Entries ==
    << [parts |-> <<Part(FALSE, "a.txt")>>, is_dir |-> FALSE],
       [parts |-> <<Part(TRUE, "hidden")>>, is_dir |-> FALSE],
       [parts |-> <<Part(FALSE, "sub")>>, is_dir |-> TRUE],
       [parts |-> <<Part(FALSE, "sub"), Part(FALSE, "b.txt")>>, is_dir |-> FALSE],
       [parts |-> <<Part(TRUE, "organizer")>>, is_dir |-> TRUE],
       [parts |-> <<Part(TRUE, "organizer"), Part(FALSE, "state.json")>>,
        is_dir |-> FALSE],
       [parts |-> <<Part(TRUE, "cache")>>, is_dir |-> TRUE],
       [parts |-> <<Part(TRUE, "cache"), Part(FALSE, "c.txt")>>,
        is_dir |-> FALSE] >>

\* directory.glob("**/*" if recursive else "*")
glob(recursive) ==
    LET Matches(e) == recursive \/ Len(e.parts) = 1
    IN  SelectSeq(Entries, Matches)

\* path.name.startswith('.')
name_is_hidden(e) == e.parts[Len(e.parts)].dot

\* '.organizer' in path.parts
in_organizer(e) == \E i \in DOMAIN e.parts : e.parts[i] = Part(TRUE, "organizer")

\* The three tests at the head of the loop body.
skipped(e, ignore_hidden) ==
    \/ e.is_dir
    \/ ignore_hidden /\ name_is_hidden(e)
    \/ in_organizer(e)

\* try: files.append(self._analyze_file(path)) except Exception: continue
analyze_or_abort(files, e, fails) ==
    IF e \in fails THEN << >> ELSE Append(files, e)

analyze_or_skip(files, e, fails) ==
    IF e \in fails THEN files ELSE Append(files, e)

NoScanner == [pc |-> "idle", recursive |-> FALSE, ignore_hidden |-> TRUE,
              fails |-> {}, directory |-> "ok", i |-> 0, files |-> << >>,
              returned |-> << >>]

\* What the scanned path is: a directory, missing, a file, or a directory
\* whose listing raises PermissionError.
Directories == {"ok", "missing", "not_a_directory", "permission"}

\* The calls of scan_directory: the files whose analysis raises are any of
\* the files of the tree.
ScannerInputs ==
    {[NoScanner EXCEPT !.pc = "scan", !.recursive = r, !.ignore_hidden = h,
                       !.fails = f, !.directory = d] :
        r \in BOOLEAN, h \in BOOLEAN,
        f \in SUBSET {Entries[k] : k \in {j \in DOMAIN Entries : ~Entries[j].is_dir}},
        d \in Directories}

\* The two tests before the loop: both raise FileSystemError.
ScanCheckDirectory ==
    /\ sn.pc = "scan"
    /\ sn' = IF sn.directory \in {"missing", "not_a_directory"}
             THEN [sn EXCEPT !.pc = "raised"]
             ELSE [sn EXCEPT !.pc = "loop", !.i = 1]
    /\ UNCHANGED <<db, jsonl, scannerFrame>>

\* One iteration of the loop over glob(pattern).
ScanEntry ==
    /\ sn.pc = "loop"
    /\ sn.i <= Len(glob(sn.recursive))
    /\ LET e == glob(sn.recursive)[sn.i]
       IN  sn' = [sn EXCEPT !.i = @ + 1,
                            !.files = IF skipped(e, sn.ignore_hidden) THEN @
                                      ELSE analyze_or_skip(@, e, sn.fails)]
    /\ UNCHANGED <<db, jsonl, scannerFrame>>

\* The listing raises PermissionError: FileSystemError leaves scan and
\* scan_directory before log_scan.
ScanPermissionError ==
    /\ sn.pc = "loop"
    /\ sn.directory = "permission"
    /\ sn' = [sn EXCEPT !.pc = "raised"]
    /\ UNCHANGED <<db, jsonl, scannerFrame>>

\* scan returns files; scan_directory writes the Scan row and returns.
ScanDirectoryReturn ==
    /\ sn.pc = "loop"
    /\ sn.i > Len(glob(sn.recursive))
    /\ sn.directory = "ok"
    /\ LET a1 == log_scan(Audit, "in", Len(sn.files))
       IN  db' = a1.db /\ jsonl' = a1.jsonl
    /\ sn' = [sn EXCEPT !.pc = "returned", !.returned = sn.files]
    /\ UNCHANGED scannerFrame

---------------------------------------------------------------------------
\* Watch batch mode thread by thread (cli/watch.py).  The observer thread
\* dispatches on_created, which calls _process_batch when the interval has
\* elapsed; the main thread's loop in WatchManager.watch calls _process_batch
\* as well.  pending_files and last_process_time are shared without a lock.

MaxEvents == 2
MaxBatches == 2

watchFrame == <<coreVars, sg, rt, cm, rd, rk, sc, sn, dp>>

Threads == {"observer", "main"}

\* The files created in the watched directory.
WatchedPaths == {<<"in1", "x">>, <<"in1", "y">>}

\* due: elapsed >= batch_interval; moved: the files execute_proposal moved
\* away; batches: history, the files of each proposal a batch generated.
NoWatch == [pending |-> << >>, created |-> {}, moved |-> {}, due |-> FALSE,
            thr |-> [t \in Threads |-> [pc |-> "idle", files |-> {}]],
            batches |-> << >>]

\* on_created in batch mode: append, then _process_batch if the interval has
\* elapsed.
OnCreated(path) ==
    /\ wb.thr["observer"].pc = "idle"
    /\ path \notin wb.created
    /\ Cardinality(wb.created) < MaxEvents
    /\ wb' = [wb EXCEPT !.pending = Append(@, path),
                        !.created = @ \cup {path},
                        !.thr["observer"].pc = IF wb.due THEN "batch" ELSE "idle"]
    /\ UNCHANGED watchFrame

\* The batch interval elapses.
IntervalElapses ==
    /\ ~wb.due
    /\ wb' = [wb EXCEPT !.due = TRUE]
    /\ UNCHANGED watchFrame

\* The loop of WatchManager.watch after time.sleep(1).
WatchLoop ==
    /\ wb.thr["main"].pc = "idle"
    /\ wb.due
    /\ wb.pending # << >>
    /\ wb' = [wb EXCEPT !.thr["main"].pc = "batch"]
    /\ UNCHANGED watchFrame

\* _process_batch: if not self.pending_files: return
ProcessBatchEnter(t) ==
    /\ wb.thr[t].pc = "batch"
    /\ Len(wb.batches) < MaxBatches
    /\ wb' = [wb EXCEPT !.thr[t].pc = IF wb.pending = << >> THEN "idle" ELSE "scan"]
    /\ UNCHANGED watchFrame

\* scan_directory and the filter "f.path in self.pending_files"; without
\* files the loop continues to its end.
pending_scanned(w) == {p \in w.created \ w.moved : p \in RangeOf(w.pending)}

ProcessBatchScan(t) ==
    /\ wb.thr[t].pc = "scan"
    /\ wb' = [wb EXCEPT !.thr[t].files = pending_scanned(wb),
                        !.thr[t].pc = IF pending_scanned(wb) = {} THEN "clear"
                                      ELSE "execute"]
    /\ UNCHANGED watchFrame

\* generate_proposal for the files, execute_proposal for the low-risk ones.
ProcessBatchExecute(t) ==
    /\ wb.thr[t].pc = "execute"
    /\ wb' = [wb EXCEPT !.batches = Append(@, wb.thr[t].files),
                        !.moved = @ \cup {p \in wb.thr[t].files :
                                             risk_score(p) <= AutoApproveThreshold},
                        !.thr[t].pc = "clear"]
    /\ UNCHANGED watchFrame

\* self.pending_files.clear(); self.last_process_time = datetime.now()
clear(pending) == << >>

ProcessBatchClear(t) ==
    /\ wb.thr[t].pc = "clear"
    /\ wb' = [wb EXCEPT !.pending = clear(wb.pending),
                        !.due = FALSE,
                        !.thr[t] = [pc |-> "idle", files |-> {}]]
    /\ UNCHANGED watchFrame

---------------------------------------------------------------------------
\* start_scan, update_scan_progress and complete_scan called for scans by
\* their id (utils/recovery.py), each call as a whole.  Here rm keeps the call
\* that returned last: its name in op and its scan_id argument in arg.

progressFrame == <<orgVars, lockVars, rec_result, rec_hist, cliVars, au, utilVars>>

ReturnedCall(op, scan_id) == [RmIdle EXCEPT !.op = op, !.arg = scan_id]

\* The scan ids of the calls: the stored scan's and others.
ScanIds == 1..(MaxScans + 1)

ProgressStartScan(scan_id, path, total_files) ==
    /\ state_dir' = start_scan(state_dir, scan_id, path, total_files)
    /\ rm' = ReturnedCall("start_scan", scan_id)
    /\ UNCHANGED progressFrame

\* update_scan_progress(scan_id, processed_files): scan_id is not read.
ProgressUpdate(scan_id, processed_files) ==
    /\ state_dir' = update_scan_progress(state_dir, processed_files)
    /\ rm' = ReturnedCall("update_scan_progress", scan_id)
    /\ UNCHANGED progressFrame

\* complete_scan(scan_id): scan_id is only written to the debug log.
ProgressComplete(scan_id) ==
    /\ state_dir' = complete_scan(state_dir)
    /\ rm' = ReturnedCall("complete_scan", scan_id)
    /\ UNCHANGED progressFrame

---------------------------------------------------------------------------
\* The destination _generate_ai_proposal builds from a suggestion
\* (core/organizer.py) and the move execute_proposal makes to it.  A path is
\* whether it is absolute and its parts; a destination string is a path too.

MaxParts == 2

destFrame == <<coreVars, sg, rt, cm, rd, rk, sc, sn, wb>>

PurePath(absolute, parts) == [absolute |-> absolute, parts |-> parts]

\* base_dir of the scan command: Path(path).parent / "Organized".
base_dir == PurePath(TRUE, <<"home", "Organized">>)

\* a / b of pathlib: an absolute right operand replaces the left one.
joinpath(a, b) ==
    IF b.absolute THEN b ELSE PurePath(a.absolute, a.parts \o b.parts)

\* Where the path leads once its ".." parts are followed (".." at the root
\* stays at the root).
RECURSIVE Followed(_, _)
Followed(parts, acc) ==
    IF parts = << >> THEN acc
    ELSE IF Head(parts) = ".."
    THEN Followed(Tail(parts),
                  IF acc = << >> THEN acc ELSE SubSeq(acc, 1, Len(acc) - 1))
    ELSE Followed(Tail(parts), Append(acc, Head(parts)))

\* The path lies inside the directory.
Inside(dir, path) ==
    LET to == Followed(path.parts, << >>)
    IN  /\ path.absolute = dir.absolute
        /\ Len(to) > Len(dir.parts)
        /\ SubSeq(to, 1, Len(dir.parts)) = dir.parts

\* _get_rule_based_destination: build_path(base_dir, ...) / name.
rule_based_destination(name) == joinpath(base_dir, PurePath(FALSE, <<"Docs", name>>))

\* dest_path of one file: base_dir / suggestion['destination'] / name when a
\* suggestion matches the file, else the rule-based destination.
ai_destination(suggested, destination, name) ==
    IF suggested
    THEN joinpath(joinpath(base_dir, destination), PurePath(FALSE, <<name>>))
    ELSE rule_based_destination(name)

NoDestination == [pc |-> "idle", suggested |-> FALSE,
                  destination |-> PurePath(FALSE, << >>), name |-> "",
                  dest_path |-> PurePath(FALSE, << >>),
                  moved_to |-> PurePath(FALSE, << >>)]

\* The parts of a destination string.
PartNames == {"Docs", "Work", ".."}

PartsUpTo(n) == UNION {[1..k -> PartNames] : k \in 0..n}

\* What the Suggester returns for the file: no suggestion, or a destination
\* string, relative or absolute.
DestinationInputs ==
    {[NoDestination EXCEPT !.pc = "suggestion", !.suggested = TRUE,
                           !.destination = PurePath(a, ps), !.name = n] :
        a \in BOOLEAN, ps \in PartsUpTo(MaxParts), n \in Names}
    \cup {[NoDestination EXCEPT !.pc = "suggestion", !.name = n] : n \in Names}

\* generate_proposal returns the proposal with the file's dest_path.
ProposeDestination ==
    /\ dp.pc = "suggestion"
    /\ dp' = [dp EXCEPT !.pc = "proposed",
                        !.dest_path = ai_destination(dp.suggested, dp.destination,
                                                     dp.name)]
    /\ UNCHANGED destFrame

\* execute_proposal: shutil.move(str(source), str(dest_path)).
MoveToDestination ==
    /\ dp.pc = "proposed"
    /\ dp' = [dp EXCEPT !.pc = "moved", !.moved_to = dp.dest_path]
    /\ UNCHANGED destFrame

InitOrg ==
    /\ fs = [p \in Paths |-> InitialBytes(p)]
    /\ backups = [k \in (1..MaxScans) \X Names |-> NoFile]
    /\ db = [scans |-> << >>, proposals |-> << >>, moves |-> << >>]
    /\ jsonl = << >>
    /\ exec = Idle
    /\ result = NoResult
    /\ disk_moves = << >>
    /\ move_hist = << >>
    /\ faults = 0

InitLock ==
    /\ lock_file = NoLock
    /\ lk = [p \in Procs |-> LockIdle]

\* The state directory as a process finds it: no lock, or the lock of a
\* process that died holding it.
InitLockAny ==
    /\ lock_file \in {NoLock, StalePid}
    /\ lk = [p \in Procs |-> LockIdle]

\* StateRecoveryManager.__init__ on an empty state directory; no command and
\* no audit call is running.
InitRecovery ==
    /\ state_dir = [current |-> NoState, temp |-> NoState]
    /\ rm = RmIdle
    /\ rec_result = NoRecResult
    /\ rec_hist = NoRecHist

InitCli ==
    /\ safe_mode = FALSE
    /\ recovery_state_file = "absent"

InitAudit == au = AuIdle

InitUtil ==
    /\ sg = NoSuggester
    /\ rt = NoRetry
    /\ cm = NoMonitor
    /\ rd = NoRedaction
    /\ rk = NoRisk
    /\ sc = NoScanCmd
    /\ sn = NoScanner
    /\ wb = NoWatch
    /\ dp = NoDestination

Init == InitOrg /\ InitLock /\ InitRecovery /\ InitCli /\ InitAudit /\ InitUtil

Next ==
    \/ \E target \in ScanTargets, ai \in AiOutcomes, answer \in BOOLEAN :
           ScanInteractive(target, ai, answer)
    \/ \E target \in ScanTargets, ai \in AiOutcomes : ScanBatch(target, ai)
    \/ \E path \in SrcPaths, ai \in AiOutcomes : WatchImmediate(path, ai)
    \/ \E directory \in {"in1", "in2"}, ai \in AiOutcomes :
           \E pending \in SUBSET Under(directory) : WatchBatch(directory, pending, ai)
    \/ \E fault \in Faults \cup {"none"} : ExecuteFile(fault)
    \/ ExecuteFinish
    \/ \E proposal_id \in 1..(Len(db.proposals) + 1) : RollbackProposal(proposal_id)
    \/ RollbackLast
    \/ \E path \in DestPaths : UserDelete(path)

Spec == Init /\ [][Next]_vars

\* The same stores under calls made in any order, on the proposals for the
\* files of one directory.
NextApi ==
    \/ \E ai \in AiOutcomes : ApiPropose("in1", ai)
    \/ \E proposal_id \in 1..MaxScans, approved \in BOOLEAN :
           ApiLogApproval(proposal_id, approved)
    \/ \E proposal_id \in 1..MaxScans : ApiExecute(proposal_id)
    \/ \E fault \in Faults \cup {"none"} : ExecuteFile(fault)
    \/ ExecuteFinish
    \/ \E proposal_id \in 1..MaxScans : RollbackProposal(proposal_id)
    \/ \E proposal_id \in 1..MaxScans : ApiLogRollback(proposal_id, 1)

SpecApi == Init /\ [][NextApi]_vars

\* The recovery manager, its calls in any order, with kills and write errors.
NextRecovery ==
    \/ \E scan_id \in 1..MaxScans, total_files \in 0..MaxFiles :
           StartScanCall(scan_id, "in1", total_files)
    \/ \E processed_files \in 0..MaxFiles : UpdateScanProgressCall(processed_files)
    \/ CompleteScanCall
    \/ AwMkstemp
    \/ AwDump
    \/ AwReplace
    \/ AwFail
    \/ Kill
    \/ ClearScanState
    \/ DetectCrash
    \/ GetInterruptedScan

SpecRecovery == Init /\ [][NextRecovery]_vars

NextAudit ==
    \/ AuLogScan(Len(scan_files(fs, "in1")))
    \/ \E scan_id \in 1..MaxScans : AuLogPropose(scan_id)
    \/ \E proposal_id \in 1..MaxScans, approved \in BOOLEAN :
           AuLogApproval(proposal_id, approved)
    \/ \E proposal_id \in 1..MaxScans, files_restored \in 0..MaxFiles :
           AuLogRollback(proposal_id, files_restored)
    \/ AuSqlite
    \/ AuSqliteFail
    \/ AuJsonl
    \/ AuKill

SpecAudit == Init /\ [][NextAudit]_vars

\* Scans whose execution can be interrupted from the keyboard, and the
\* rollbacks that follow.
NextSigint ==
    \/ \E target \in ScanTargets, ai \in AiOutcomes, answer \in BOOLEAN :
           ScanInteractive(target, ai, answer)
    \/ ExecuteFile("none")
    \/ ExecuteFinish
    \/ Interrupt
    \/ \E proposal_id \in 1..(Len(db.proposals) + 1) : RollbackProposal(proposal_id)
    \/ RollbackLast

SpecSigint == Init /\ [][NextSigint]_vars

\* One call of a function wrapped by retry_with_backoff.
NextRetry ==
    \/ \E max_attempts \in 1..MaxAttempts, idempotent \in BOOLEAN :
           RetryStart(max_attempts, idempotent)
    \/ RetryReturn
    \/ \E e \in RetryErrors : RetryRaise(e)
    \/ RetryLoopEnd

SpecRetry == Init /\ [][NextRetry]_vars

\* A connection monitor with its callers.
NextMonitor ==
    \/ QueueOperation
    \/ CheckedCall
    \/ \E test \in {"true", "false", "raises"} : CheckConnectivity(test)

SpecMonitor == Init /\ [][NextMonitor]_vars

\* The redactor applied twice to each of the texts.
InitRedactSpec ==
    /\ InitOrg /\ InitLock /\ InitRecovery /\ InitCli /\ InitAudit
    /\ sg = NoSuggester
    /\ rt = NoRetry
    /\ cm = NoMonitor
    /\ rk = NoRisk
    /\ rd \in RedactionInputs
    /\ sc = NoScanCmd
    /\ sn = NoScanner
    /\ wb = NoWatch
    /\ dp = NoDestination

NextRedact ==
    \/ Redact
    \/ RedactAgain

SpecRedact == InitRedactSpec /\ [][NextRedact]_vars

\* The risk assessor applied to each of the files.
InitRiskSpec ==
    /\ InitOrg /\ InitLock /\ InitRecovery /\ InitCli /\ InitAudit
    /\ sg = NoSuggester
    /\ rt = NoRetry
    /\ cm = NoMonitor
    /\ rd = NoRedaction
    /\ rk \in RiskInputs
    /\ sc = NoScanCmd
    /\ sn = NoScanner
    /\ wb = NoWatch
    /\ dp = NoDestination

NextRisk ==
    \/ CalculateRiskScore
    \/ GetRiskLevel

SpecRisk == InitRiskSpec /\ [][NextRisk]_vars

\* The planner with every answer of the Suggester.
NextPlanner ==
    \/ \E target \in ScanTargets, response \in SuggesterFailures :
           GenerateProposal(target, response)
    \/ \E target \in ScanTargets : GenerateProposal(target, "suggestions")

SpecPlanner == Init /\ [][NextPlanner]_vars

\* The scan command with its options, after the group callback.
NextCli ==
    \/ \E flag \in BOOLEAN, choice \in 1..3 : Cli(flag, choice)
    \/ \E target \in ScanTargets, ai \in AiOutcomes, answer \in BOOLEAN :
           ScanInteractive(target, ai, answer)
    \/ \E target \in ScanTargets, ai \in AiOutcomes : ScanBatch(target, ai)
    \/ \E target \in ScanTargets, ai \in AiOutcomes, batch, answer \in BOOLEAN :
           ScanDryRun(target, ai, batch, answer)
    \/ \E fault \in Faults \cup {"none"} : ExecuteFile(fault)
    \/ ExecuteFinish

SpecCli == Init /\ [][NextCli]_vars

\* Two processes on one state directory.
NextLock ==
    \/ \E self \in Procs : AcquireStart(self)
    \/ \E self \in Procs : AcquireExists(self)
    \/ \E self \in Procs : AcquireRead(self)
    \/ \E self \in Procs : AcquireProbe(self)
    \/ \E self \in Procs : AcquireUnlinkStale(self)
    \/ \E self \in Procs : AcquireUnlinkCorrupt(self)
    \/ \E self \in Procs : AcquireCreate(self)
    \/ \E self \in Procs : AcquireWrite(self)
    \/ \E self \in Procs : ReleaseStart(self)
    \/ \E self \in Procs : ReleaseExists(self)
    \/ \E self \in Procs : ReleaseUnlink(self)

InitLockSpec ==
    InitOrg /\ InitLockAny /\ InitRecovery /\ InitCli /\ InitAudit /\ InitUtil

SpecLock == InitLockSpec /\ [][NextLock]_vars

\* The two functions called by one process at a time: the other process is
\* outside them, holding the lock or not.  The lock file is absent, left by
\* a process that died, or holds no PID.
Alone(self) == \A q \in Procs \ {self} : lk[q].pc = "idle"

NextLockCalls ==
    \/ \E self \in Procs : Alone(self) /\ AcquireStart(self)
    \/ \E self \in Procs : Alone(self) /\ AcquireExists(self)
    \/ \E self \in Procs : Alone(self) /\ AcquireRead(self)
    \/ \E self \in Procs : Alone(self) /\ AcquireProbe(self)
    \/ \E self \in Procs : Alone(self) /\ AcquireUnlinkStale(self)
    \/ \E self \in Procs : Alone(self) /\ AcquireUnlinkCorrupt(self)
    \/ \E self \in Procs : Alone(self) /\ AcquireCreate(self)
    \/ \E self \in Procs : Alone(self) /\ AcquireWrite(self)
    \/ \E self \in Procs : Alone(self) /\ ReleaseStart(self)
    \/ \E self \in Procs : Alone(self) /\ ReleaseExists(self)
    \/ \E self \in Procs : Alone(self) /\ ReleaseUnlink(self)

InitLockCalls ==
    /\ InitOrg /\ InitRecovery /\ InitCli /\ InitAudit /\ InitUtil
    /\ lock_file \in {NoLock, StalePid, EmptyLock, TextLock}
    /\ lk = [p \in Procs |-> LockIdle]

SpecLockCalls == InitLockCalls /\ [][NextLockCalls]_vars

\* The calls one at a time, where _release_lock is also called by a process
\* that does not hold the lock.
NextRelease ==
    \/ \E self \in Procs : Alone(self) /\ AcquireStart(self)
    \/ \E self \in Procs : Alone(self) /\ AcquireExists(self)
    \/ \E self \in Procs : Alone(self) /\ AcquireRead(self)
    \/ \E self \in Procs : Alone(self) /\ AcquireProbe(self)
    \/ \E self \in Procs : Alone(self) /\ AcquireUnlinkStale(self)
    \/ \E self \in Procs : Alone(self) /\ AcquireUnlinkCorrupt(self)
    \/ \E self \in Procs : Alone(self) /\ AcquireCreate(self)
    \/ \E self \in Procs : Alone(self) /\ AcquireWrite(self)
    \/ \E self \in Procs : Alone(self) /\ ReleaseStart(self)
    \/ \E self \in Procs : Alone(self) /\ ReleaseWithoutLock(self)
    \/ \E self \in Procs : Alone(self) /\ ReleaseExists(self)
    \/ \E self \in Procs : Alone(self) /\ ReleaseUnlink(self)

SpecRelease == InitLockCalls /\ [][NextRelease]_vars

\* One run of the scan command, its end, and the next start.
NextScanCmd ==
    \/ \E target \in ScanTargets : ScanCmdEnter(target)
    \/ ScanCmdAnalyse
    \/ ScanCmdScanned
    \/ ScanCmdStartScan
    \/ \E ai \in AiOutcomes, answer \in BOOLEAN : ScanCmdAnswer(ai, answer)
    \/ ExecuteFile("none")
    \/ \E fault \in Faults : ExecuteFile(fault)
    \/ ExecuteFinish
    \/ ScanCmdReturn
    \/ ScanCmdKill
    \/ ScanCmdError
    \/ ScanCmdNextStart

SpecScanCmd == Init /\ [][NextScanCmd]_vars

\* scan_directory on each of the trees and settings.
InitScannerSpec ==
    /\ InitOrg /\ InitLock /\ InitRecovery /\ InitCli /\ InitAudit
    /\ sg = NoSuggester
    /\ rt = NoRetry
    /\ cm = NoMonitor
    /\ rd = NoRedaction
    /\ rk = NoRisk
    /\ sc = NoScanCmd
    /\ sn \in ScannerInputs
    /\ wb = NoWatch
    /\ dp = NoDestination

NextScanner ==
    \/ ScanCheckDirectory
    \/ ScanEntry
    \/ ScanPermissionError
    \/ ScanDirectoryReturn

SpecScanner == InitScannerSpec /\ [][NextScanner]_vars

\* The watcher in batch mode: events, the clock and the two threads.
NextWatch ==
    \/ \E path \in WatchedPaths : OnCreated(path)
    \/ IntervalElapses
    \/ WatchLoop
    \/ \E t \in Threads : ProcessBatchEnter(t)
    \/ \E t \in Threads : ProcessBatchScan(t)
    \/ \E t \in Threads : ProcessBatchExecute(t)
    \/ \E t \in Threads : ProcessBatchClear(t)

SpecWatch == Init /\ [][NextWatch]_vars

\* The three calls in any order and for any scan.
NextProgress ==
    \/ \E scan_id \in ScanIds, path \in {"in1", "in2"}, total_files \in 0..MaxFiles :
           ProgressStartScan(scan_id, path, total_files)
    \/ \E scan_id \in ScanIds, processed_files \in 0..MaxFiles :
           ProgressUpdate(scan_id, processed_files)
    \/ \E scan_id \in ScanIds : ProgressComplete(scan_id)

SpecProgress == Init /\ [][NextProgress]_vars

\* generate_proposal and execute_proposal for each thing the Suggester can
\* return as a destination.
InitDestinationSpec ==
    /\ InitOrg /\ InitLock /\ InitRecovery /\ InitCli /\ InitAudit
    /\ sg = NoSuggester
    /\ rt = NoRetry
    /\ cm = NoMonitor
    /\ rd = NoRedaction
    /\ rk = NoRisk
    /\ sc = NoScanCmd
    /\ sn = NoScanner
    /\ wb = NoWatch
    /\ dp \in DestinationInputs

NextDestination ==
    \/ ProposeDestination
    \/ MoveToDestination

SpecDestination == InitDestinationSpec /\ [][NextDestination]_vars

---------------------------------------------------------------------------
\* Properties.

ProposalIds == DOMAIN db.proposals
MoveIds(p) == RangeOf(get_moves_by_proposal(db, p))

\* C1: after rollback_proposal(p) returns for a proposal with Move rows, every
\* row's original path holds the bytes the file had before it was moved, or the
\* row is reported as not restorable; and p is marked rolled back.
C1_RollbackRestoresBytes ==
    [][\A p \in ProposalIds :
          (RollbackProposal(p) /\ ~db.proposals[p].rolled_back /\ MoveIds(p) # {})
          => /\ db'.proposals[p].rolled_back
             /\ \A i \in MoveIds(p) :
                   \/ fs'[db.moves[i].original_path] = move_hist[i].bytes
                   \/ i \in result'.unresolved]_vars

C3_MoveAuditCoupling ==
    /\ \A i \in DOMAIN disk_moves :
          \E j \in DOMAIN db.moves :
              /\ db.moves[j].proposal_id = disk_moves[i].proposal_id
              /\ db.moves[j].original_path = disk_moves[i].source
              /\ db.moves[j].new_path = disk_moves[i].destination
    /\ \A j \in DOMAIN db.moves :
          \E i \in DOMAIN disk_moves :
              /\ db.moves[j].proposal_id = disk_moves[i].proposal_id
              /\ db.moves[j].original_path = disk_moves[i].source
              /\ db.moves[j].new_path = disk_moves[i].destination

\* C4: every Move row belongs to a proposal whose approved flag was true when
\* the file was moved.
C4_MovesOnlyWhenApproved ==
    \A j \in DOMAIN db.moves :
        /\ db.moves[j].proposal_id \in ProposalIds
        /\ move_hist[j].approved = "true"

\* C5: the destinations of the files of one proposal are pairwise different.
C5_DestinationsUnique ==
    \A p \in ProposalIds :
        \A i, j \in DOMAIN db.proposals[p].plan.files :
            i # j => db.proposals[p].plan.files[i].destination
                     # db.proposals[p].plan.files[j].destination

\* The step in which execute_proposal returns a failure.
ExecuteFails == exec.active /\ result'.op = "execute" /\ ~result'.success

\* C6: when the backup or the move of a file fails with a file-system error,
\* execute_proposal still moves every later file of the proposal that is there
\* to be moved, each with its Move row, before it returns.
C6_ContinuesAfterFileError ==
    [][(ExecuteFails /\ fs' = fs)
       => \A k \in DOMAIN exec.files :
             (k > exec.idx /\ exists(fs, exec.files[k].source))
             => \E j \in DOMAIN db'.moves :
                   /\ db'.moves[j].proposal_id = exec.proposal_id
                   /\ db'.moves[j].original_path = exec.files[k].source]_vars

\* C7: when a file fails after its backup was taken, the backup store, the
\* files and the Move rows are as they were before that file.
C7_FailureRestoresPriorState ==
    [][(/\ ExecuteFails
        /\ needs_backup(exec.files[exec.idx].source)
        /\ backups'[<<exec.proposal_id, exec.files[exec.idx].source[2]>>]
              = fs[exec.files[exec.idx].source])
       => /\ backups' = backups
          /\ fs' = fs
          /\ db'.moves = db.moves]_vars

\* C8: plan, scan_id and confidence of a persisted proposal never change.
C8_ProposalImmutable ==
    [][\A p \in ProposalIds :
          /\ p \in DOMAIN db'.proposals
          /\ db'.proposals[p].plan = db.proposals[p].plan
          /\ db'.proposals[p].scan_id = db.proposals[p].scan_id
          /\ db'.proposals[p].confidence = db.proposals[p].confidence]_vars

\* A proposal that was approved, executed and rolled back.
C8_Witness ==
    \E p \in ProposalIds :
        /\ db.proposals[p].user_approved = "true"
        /\ db.proposals[p].rolled_back
        /\ MoveIds(p) # {}

\* C9: approved and rolled_back, once true, stay true.
C9_FlagsMonotonic ==
    [][\A p \in ProposalIds :
          /\ db.proposals[p].user_approved = "true"
                => db'.proposals[p].user_approved = "true"
          /\ db.proposals[p].rolled_back => db'.proposals[p].rolled_back]_vars

\* C10: no two processes hold the lock at once.
C10_LockMutualExclusion ==
    \A p, q \in Procs : (p # q /\ lk[p].holds) => ~lk[q].holds

---------------------------------------------------------------------------
\* The recovery manager (SpecRecovery).

\* C11: a kill at any step of start_scan, update_scan_progress or complete_scan
\* leaves current_scan.json absent or holding the whole previous or the whole
\* new state; it is never a partial document, and get_interrupted_scan never
\* returns one.
C11_RecoveryAtomicity ==
    /\ state_dir.current \in {rec_hist.prev, rec_hist.new}
    /\ state_dir.current.kind \in {"absent", "state"}
    /\ rec_result.scan.kind \in {"absent", "state"}

\* Killed between mkstemp and the end of the write, over an earlier state; the
\* next process has called detect_crash and get_interrupted_scan.
C11_Witness ==
    /\ rec_hist.killed
    /\ state_dir.temp.kind = "partial"
    /\ parses(state_dir.current)
    /\ state_dir.current = rec_hist.prev
    /\ rec_hist.new # rec_hist.prev
    /\ rec_result.detected = "true"
    /\ rec_result.got

\* C12: after start_scan(s, path, N) has returned, followed only by
\* update_scan_progress calls, the last returned one with value k, a process
\* starting on the directory gets detect_crash() = true, get_interrupted_scan()
\* returns the state with scan_id s, total_files N and processed_files k, and
\* reconstruct_incident reports progress k/N.
C12_CrashDetected ==
    rec_hist.phase = "started" =>
        /\ detect_crash(state_dir).crash
        /\ rec_result.detected # "false"
        /\ get_interrupted_scan(state_dir) = rec_hist.scan
        /\ rec_result.got => rec_result.scan = rec_hist.scan
        /\ reconstruct_incident(get_interrupted_scan(state_dir)) =
               <<"Progress: ", rec_hist.scan.processed_files, "/",
                 rec_hist.scan.total_files, " files">>

\* start_scan and an update with k > 0 returned, a later call was killed, and
\* the next process asked detect_crash and get_interrupted_scan.
C12_Witness ==
    /\ rec_hist.phase = "started"
    /\ rec_hist.killed
    /\ rec_hist.scan.processed_files > 0
    /\ rec_hist.scan.total_files > 0
    /\ rec_result.detected = "true"
    /\ rec_result.got
    /\ rec_result.scan = rec_hist.scan

\* C13: after start_scan(s, ...), any progress updates and complete_scan(s)
\* have returned, detect_crash returns false and get_interrupted_scan returns
\* None, whichever process asks.
C13_CompletedScanIsNoCrash ==
    rec_hist.phase = "completed" =>
        /\ ~detect_crash(state_dir).crash
        /\ rec_result.detected # "true"
        /\ get_interrupted_scan(state_dir) = NoState
        /\ rec_result.got => rec_result.scan = NoState

\* A scan with progress was completed and both questions were asked.
C13_Witness ==
    /\ rec_hist.phase = "completed"
    /\ rec_hist.scan.processed_files > 0
    /\ rec_result.detected = "false"
    /\ rec_result.got
    /\ rec_result.scan = NoState

---------------------------------------------------------------------------
\* The scan command (SpecCli).

\* C15: while safe mode is active (--safe-mode, the recovery prompt, or the
\* sentinel file), no step moves a file, writes a Move row or adds a proposal
\* made by the Suggester.
C15_SafeModeDisablesWrites ==
    [][(safe_mode \/ recovery_state_file = "safe_mode") =>
           /\ fs' = fs
           /\ db'.moves = db.moves
           /\ \A p \in DOMAIN db'.proposals \ DOMAIN db.proposals :
                  db'.proposals[p].plan.reasoning # "AI-generated organization plan"]_vars

\* C16: scan --dry-run, when it reaches execute_proposal(p, dry_run=True),
\* gets (true, number of files of p) at once, and nothing is changed: no
\* backup, no file moved, no Move row, no execute record.
C16_DryRunChangesNothing ==
    [][\A target \in ScanTargets, ai \in AiOutcomes, batch, answer \in BOOLEAN :
           ScanDryRun(target, ai, batch, answer) =>
               /\ ~exec'.active
               /\ fs' = fs
               /\ backups' = backups
               /\ db'.moves = db.moves
               /\ \A i \in DOMAIN jsonl' \ DOMAIN jsonl : jsonl'[i].action # "execute"
               /\ SubSeq(jsonl', 1, Len(jsonl)) = jsonl
               /\ LET pid == Len(db'.proposals)
                      pfiles == db'.proposals[pid].plan.files
                      n == IF batch
                           THEN Cardinality({i \in DOMAIN pfiles :
                                    pfiles[i].risk_score <= AutoApproveThreshold})
                           ELSE Len(pfiles)
                      ran == /\ Len(db'.proposals) > Len(db.proposals)
                             /\ IF batch THEN n > 0 ELSE answer
                  IN  IF ran
                      THEN /\ result'.op = "execute"
                           /\ result'.success
                           /\ result'.count = n
                      ELSE result' = NoResult]_vars

\* A dry run has reported files as moved and everything is where it was.
C16_Witness ==
    /\ result.op = "execute"
    /\ result.success
    /\ result.count > 0
    /\ db.proposals # << >>
    /\ db.moves = << >>
    /\ fs = [p \in Paths |-> InitialBytes(p)]
    /\ \A k \in DOMAIN backups : backups[k] = NoFile
    /\ \A i \in DOMAIN jsonl : jsonl[i].action # "execute"
    /\ state_dir.current.kind = "state"
    /\ state_dir.current.completed

---------------------------------------------------------------------------
\* The execute record (Spec).

RowsOf(moves, p) == Cardinality({i \in DOMAIN moves : moves[i].proposal_id = p})

\* The step in which execute_proposal returns.
ExecuteReturns == exec.active /\ ~exec'.active /\ result'.op = "execute"

\* C17: the step in which a call of execute_proposal returns appends exactly
\* one execute record, whose files_moved is the number of Move rows the call
\* wrote and whose success is true exactly if the call moved every file of
\* the proposal; no other step of the call appends an execute record.
C17_ExecuteRecord ==
    [][exec.active =>
          IF ExecuteReturns
          THEN /\ Len(jsonl') = Len(jsonl) + 1
               /\ SubSeq(jsonl', 1, Len(jsonl)) = jsonl
               /\ LET r == jsonl'[Len(jsonl')]
                      p == exec.proposal_id
                  IN  /\ r.action = "execute"
                      /\ r.id = p
                      /\ r.n = RowsOf(db'.moves, p)
                      /\ r.ok <=> (RowsOf(disk_moves', p) = Len(exec.files))
          ELSE \A i \in DOMAIN jsonl' \ DOMAIN jsonl : jsonl'[i].action # "execute"]_vars

---------------------------------------------------------------------------
\* rollback --last (Spec).

\* The proposals with approved = true and rolled_back = false.
Candidates == {p \in DOMAIN db.proposals :
                  /\ db.proposals[p].user_approved = "true"
                  /\ ~db.proposals[p].rolled_back}

\* C18: rollback_last rolls back the newest approved proposal that is not
\* rolled back, which is then marked rolled back so that the next call takes
\* the next older one; with no such proposal it returns (false, 0) and changes
\* nothing.
C18_RollbackLastNewestFirst ==
    [][RollbackLast =>
          IF Candidates = {}
          THEN /\ ~result'.success
               /\ result'.count = 0
               /\ fs' = fs
               /\ db' = db
               /\ jsonl' = jsonl
          ELSE LET p == CHOOSE c \in Candidates : \A q \in Candidates : q <= c
               IN  /\ result'.proposal_id = p
                   /\ result'.success
                   /\ db'.proposals[p].rolled_back
                   /\ \A q \in DOMAIN db.proposals \ {p} :
                          db'.proposals[q] = db.proposals[q]]_vars

---------------------------------------------------------------------------
\* The two audit stores (SpecAudit).

\* The row a JSONL record of a scan, propose, approval or rollback refers to is
\* in the relational store d and shows the transition.
RowCommitted(d, r) ==
    IF r.action = "scan"
    THEN r.id \in DOMAIN d.scans /\ d.scans[r.id].file_count = r.n
    ELSE IF r.action = "propose"
    THEN r.id \in DOMAIN d.proposals /\ d.proposals[r.id].confidence = r.n
    ELSE IF r.action = "approval"
    THEN r.id \in DOMAIN d.proposals /\ d.proposals[r.id].user_approved # "null"
    ELSE IF r.action = "rollback"
    THEN r.id \in DOMAIN d.proposals /\ d.proposals[r.id].rolled_back
    ELSE TRUE

\* C19: a scan, propose, approval or rollback record is appended to the JSONL
\* only when its relational write is already committed, and not at all when
\* that write failed; every JSONL record refers to a row that exists.
C19_JsonlAfterRelationalWrite ==
    [][/\ \A i \in DOMAIN jsonl' \ DOMAIN jsonl : RowCommitted(db, jsonl'[i])
       /\ \A i \in DOMAIN jsonl' : RowCommitted(db', jsonl'[i])]_vars

\* A rollback was recorded in both stores, and an earlier call stopped after
\* its relational write: a scan row without a scan record.
C19_Witness ==
    /\ au.step = 0
    /\ \E i \in DOMAIN jsonl : jsonl[i].action = "rollback"
    /\ \E i \in DOMAIN jsonl : jsonl[i].action = "propose"
    /\ db.scans # << >>
    /\ \A i \in DOMAIN jsonl : jsonl[i].action # "scan"

---------------------------------------------------------------------------
\* The order of Move rows (Spec).

\* The place of a source path in the file list of a plan.
PlaceIn(pfiles, source) == CHOOSE k \in DOMAIN pfiles : pfiles[k].source = source

---------------------------------------------------------------------------
\* C21: whenever the Suggester fails in any of the listed ways,
\* generate_proposal returns a persisted proposal in which every file has its
\* rule-based destination, the confidence is 0.75 and the reasoning is
\* "Rule-based organization".
C21_SuggesterFallback ==
    sg.response \in SuggesterFailures =>
        /\ sg.returned
        /\ sg.proposal_id \in DOMAIN db.proposals
        /\ LET pr == db.proposals[sg.proposal_id]
           IN  /\ pr.confidence = RuleConfidence
               /\ pr.plan.confidence = RuleConfidence
               /\ pr.plan.reasoning = "Rule-based organization"
               /\ \A i \in DOMAIN pr.plan.files :
                      pr.plan.files[i].destination =
                          _get_rule_based_destination(pr.plan.files[i].source)

\* The same for the failures after which analyze_files returns None or {} and
\* for a missing or unavailable provider.
C21_FallbackOnNone ==
    sg.response \in SuggesterFailures \ {"lacks_fields", "not_object"} =>
        /\ sg.returned
        /\ sg.proposal_id \in DOMAIN db.proposals
        /\ LET pr == db.proposals[sg.proposal_id]
           IN  /\ pr.confidence = RuleConfidence
               /\ pr.plan.reasoning = "Rule-based organization"
               /\ \A i \in DOMAIN pr.plan.files :
                      pr.plan.files[i].destination =
                          _get_rule_based_destination(pr.plan.files[i].source)

C21_Witness ==
    /\ sg.response = "timeout"
    /\ sg.returned
    /\ sg.proposal_id \in DOMAIN db.proposals

---------------------------------------------------------------------------
\* C22: with backups enabled, every Move row of a file smaller than
\* backup.skip_large_files_mb has a backup file under backups/<proposal_id>/
\* that holds the file's bytes from before the move; no backup is overwritten
\* by the backup of another file of the same proposal.
C22_BackupForEveryMove ==
    backup_enabled =>
        \A i \in DOMAIN db.moves :
            needs_backup(db.moves[i].original_path) =>
                \E k \in DOMAIN backups :
                    /\ k[1] = db.moves[i].proposal_id
                    /\ backups[k] # NoFile
                    /\ backups[k] = move_hist[i].bytes

\* The same for the proposals whose files have pairwise different names.
C22_BackupWhenNamesDiffer ==
    backup_enabled =>
        \A i \in DOMAIN db.moves :
            LET p == db.moves[i].proposal_id
                pfiles == db.proposals[p].plan.files
            IN  (/\ needs_backup(db.moves[i].original_path)
                 /\ \A a, b \in DOMAIN pfiles :
                        a # b => pfiles[a].source[2] # pfiles[b].source[2])
                => /\ backups[<<p, db.moves[i].original_path[2]>>] # NoFile
                   /\ backups[<<p, db.moves[i].original_path[2]>>]
                          = move_hist[i].bytes

C22_Witness ==
    \E i \in DOMAIN db.moves :
        /\ needs_backup(db.moves[i].original_path)
        /\ backups[<<db.moves[i].proposal_id, db.moves[i].original_path[2]>>]
               = move_hist[i].bytes

---------------------------------------------------------------------------
\* C23: after an interrupt between two files of execute_proposal the last
\* record of the log is an execute record of the proposal with success false
\* and the number of files moved so far; the files moved so far are at their
\* destinations and each has its Move row.
C23_InterruptWritesExecuteRecord ==
    result.op = "interrupted" =>
        /\ jsonl # << >>
        /\ jsonl[Len(jsonl)] = [action |-> "execute", id |-> result.proposal_id,
                                n |-> result.count, ok |-> FALSE]
        /\ RowsOf(db.moves, result.proposal_id) = result.count
        /\ \A i \in DOMAIN disk_moves :
               disk_moves[i].proposal_id = result.proposal_id =>
                   /\ exists(fs, disk_moves[i].destination)
                   /\ \E j \in DOMAIN db.moves :
                          /\ db.moves[j].proposal_id = result.proposal_id
                          /\ db.moves[j].original_path = disk_moves[i].source
                          /\ db.moves[j].new_path = disk_moves[i].destination

\* The part of C23 about the files: after the interrupt every file moved so
\* far is at its destination and has its Move row.
C23_MovedFilesKeepRows ==
    result.op = "interrupted" =>
        /\ result.count > 0
        /\ RowsOf(db.moves, result.proposal_id) = result.count
        /\ \A i \in DOMAIN disk_moves :
               disk_moves[i].proposal_id = result.proposal_id =>
                   /\ exists(fs, disk_moves[i].destination)
                   /\ \E j \in DOMAIN db.moves :
                          /\ db.moves[j].proposal_id = result.proposal_id
                          /\ db.moves[j].original_path = disk_moves[i].source
                          /\ db.moves[j].new_path = disk_moves[i].destination

C23_Witness ==
    /\ result.op = "interrupted"
    /\ result.count > 0

---------------------------------------------------------------------------
\* The calls of the wrapped function among the wrapper's events.
RetryCalls == {i \in DOMAIN rt.events : rt.events[i].kind = "call"}

\* C24: the wrapper calls the function at most max_attempts times and stops at
\* the first call that returns, whose value it returns; when all max_attempts
\* calls raise a retryable error it ends by raising the last error; every
\* failed call that is followed by another call is followed by exactly one
\* on_retry call, made with its error, before that next call.
C24_RetryUntilFirstReturn ==
    rt.pc # "idle" =>
        /\ Cardinality(RetryCalls) <= rt.max_attempts
        /\ \A i \in RetryCalls :
               rt.events[i].error = NoError =>
                   /\ i = Len(rt.events)
                   /\ rt.pc = "done"
                   /\ rt.outcome = "returned"
                   /\ rt.value = rt.events[i].attempt + 1
        /\ rt.outcome = "returned" =>
               /\ rt.events # << >>
               /\ rt.events[Len(rt.events)].kind = "call"
               /\ rt.events[Len(rt.events)].error = NoError
        /\ (/\ rt.pc = "done"
            /\ Cardinality(RetryCalls) = rt.max_attempts
            /\ \A i \in RetryCalls : /\ rt.events[i].error # NoError
                                     /\ is_retryable_error(rt.events[i].error))
           => /\ rt.outcome = "raised"
              /\ \E i \in RetryCalls :
                     /\ \A j \in RetryCalls : j <= i
                     /\ rt.error = rt.events[i].error
        /\ \A i \in RetryCalls :
               (\E j \in RetryCalls : j > i) =>
                   /\ rt.events[i].error # NoError
                   /\ rt.events[i + 1] = [kind |-> "on_retry",
                                          attempt |-> rt.events[i].attempt,
                                          error |-> rt.events[i].error]
                   /\ i + 2 \in RetryCalls

C24_Witness ==
    /\ rt.pc = "done"
    /\ rt.outcome = "raised"
    /\ rt.idempotent
    /\ rt.max_attempts = MaxAttempts
    /\ Cardinality(RetryCalls) = MaxAttempts
    /\ is_retryable_error(rt.error)
    /\ Cardinality(DOMAIN rt.events \ RetryCalls) = MaxAttempts - 1

\* C25: when the config has idempotent = False the function is called once,
\* and a call that raises an error that is not retryable is the last one; in
\* both cases the error of that call is raised and on_retry is not called for
\* it.
C25_OnlySafeRetries ==
    rt.pc = "done" =>
        /\ ~rt.idempotent =>
               /\ Cardinality(RetryCalls) = 1
               /\ rt.events[1].error # NoError =>
                      /\ rt.outcome = "raised"
                      /\ rt.error = rt.events[1].error
                      /\ DOMAIN rt.events \ RetryCalls = {}
        /\ \A i \in RetryCalls :
               (rt.events[i].error # NoError /\ ~is_retryable_error(rt.events[i].error))
               => /\ i = Len(rt.events)
                  /\ rt.outcome = "raised"
                  /\ rt.error = rt.events[i].error

\* The part of C25 about errors that are not retryable.
C25_NonRetryableRaisedAtOnce ==
    \A i \in RetryCalls :
        (rt.events[i].error # NoError /\ ~is_retryable_error(rt.events[i].error))
        => /\ i = Len(rt.events)
           /\ rt.pc = "done"
           /\ rt.outcome = "raised"
           /\ rt.error = rt.events[i].error

C25_Witness ==
    /\ rt.pc = "done"
    /\ ~rt.idempotent
    /\ rt.outcome = "raised"

---------------------------------------------------------------------------
\* C26: the monitor calls queued operations only in a check_connectivity call
\* that takes it from not ONLINE to ONLINE; that call runs every pending
\* operation once, in queue order, and leaves in pending_operations exactly
\* the ones that raised, in their order.
C26_OfflineQueue ==
    [][IF cm.state # "online" /\ cm'.state = "online"
       THEN LET ran == SubSeq(cm'.log, Len(cm.log) + 1, Len(cm'.log))
                Failed(e) == ~e.ok
                failed == SelectSeq(ran, Failed)
            IN  /\ SubSeq(cm'.log, 1, Len(cm.log)) = cm.log
                /\ [i \in 1..Len(ran) |-> ran[i].op] = cm.pending
                /\ cm'.pending = [i \in 1..Len(failed) |-> failed[i].op]
       ELSE cm'.log = cm.log]_vars

\* An operation queued while offline has run twice, failing at the first
\* reconnection and returning at the second.
C26_Witness ==
    /\ cm.state = "online"
    /\ cm.pending = << >>
    /\ \E i, j \in DOMAIN cm.log :
           /\ i < j
           /\ cm.log[i].op = cm.log[j].op
           /\ ~cm.log[i].ok
           /\ cm.log[j].ok

---------------------------------------------------------------------------
\* C28: for an enabled redactor redact(redact(x)) = redact(x), for a disabled
\* one redact(x) = x.
C28_RedactIdempotent ==
    rd.pc = "twice" =>
        IF rd.enabled THEN rd.twice = rd.once ELSE rd.once = rd.text

\* The second half of C28, and the first half for the texts whose redaction
\* holds no email address any more.
C28_DisabledOrNoEmailLeft ==
    rd.pc = "twice" =>
        IF rd.enabled
        THEN ~search(EMAIL_PATTERN, rd.once) => rd.twice = rd.once
        ELSE rd.once = rd.text /\ rd.twice = rd.text

C28_Witness ==
    /\ rd.pc = "twice"
    /\ rd.enabled
    /\ rd.once # rd.text
    /\ rd.twice = rd.once

---------------------------------------------------------------------------
\* The deltas as C27 lists them.
C27_Delta(t) ==
    CASE t \in {"SSN", "CreditCard"} -> 40
      [] t \in {"Password", "APIKey"} -> 50
      [] t \in {"Email", "Phone"} -> 10

C27_Sum ==
    SumSeq([i \in DOMAIN PatternTypes |->
               IF PatternTypes[i] \in rk.types THEN C27_Delta(PatternTypes[i])
               ELSE 0])
        + (IF rk.file_size > 500 * 1024 * 1024 THEN 10 ELSE 0)
        + (IF rk.suffix \in {".dll", ".DLL"} THEN 30 ELSE 0)
        + (IF rk.mtime.exists /\ rk.mtime.stat_ok /\ rk.mtime.age_hours < 24
           THEN 20 ELSE 0)

\* C27: the score is the sum of the deltas of the conditions that hold, capped
\* at 100; it lies in 0..100; the score of the same file with one more
\* sensitive match class in its preview is not smaller.
C27_RiskScore ==
    rk.pc = "score" =>
        /\ rk.score = (IF C27_Sum < 100 THEN C27_Sum ELSE 100)
        /\ rk.score \in 0..100
        /\ \A i \in DOMAIN PatternTypes :
               calculate_risk_score(Preview(rk.types \cup {PatternTypes[i]},
                                            rk.repeated),
                                    rk.file_size, rk.suffix, rk.mtime) >= rk.score

\* SSN, password and a system extension add up to more than 100.
C27_Witness ==
    /\ rk.pc = "score"
    /\ rk.types = {"SSN", "Password"}
    /\ rk.suffix = ".DLL"
    /\ C27_Sum > 100
    /\ rk.score = 100

---------------------------------------------------------------------------
\* A step in which rollback_proposal runs, from rollback --proposal or from
\* rollback --last.
RollbackStep ==
    \/ RollbackLast /\ last_proposal(db) # 0
    \/ \E proposal_id \in 1..(Len(db.proposals) + 1) : RollbackProposal(proposal_id)

\* C29: when rollback_proposal(p) returns success, p is marked rolled back,
\* the call has appended exactly one rollback record for p with
\* files_restored, and rollback_last does not pick p any more.
C29_SuccessfulRollbackIsRecorded ==
    [][(RollbackStep /\ result'.success) =>
          LET p == result'.proposal_id
          IN  /\ db'.proposals[p].rolled_back
              /\ jsonl' = Append(jsonl, [action |-> "rollback", id |-> p,
                                         n |-> result'.count, ok |-> TRUE])
              /\ last_proposal(db') # p]_vars

\* The same for the proposals that have Move rows.
C29_RecordedWhenMoveRows ==
    [][(RollbackStep /\ result'.success
           /\ get_moves_by_proposal(db, result'.proposal_id) # << >>) =>
          LET p == result'.proposal_id
          IN  /\ db'.proposals[p].rolled_back
              /\ jsonl' = Append(jsonl, [action |-> "rollback", id |-> p,
                                         n |-> result'.count, ok |-> TRUE])
              /\ last_proposal(db') # p]_vars

C29_Witness ==
    /\ result.op = "rollback"
    /\ result.success
    /\ result.count > 0
    /\ db.proposals[result.proposal_id].rolled_back

---------------------------------------------------------------------------
\* The process lock, one call at a time (SpecLockCalls).

---------------------------------------------------------------------------
\* Audit store errors during execute_proposal (Spec).

\* The step of execute_proposal in which a file was renamed and the write of
\* its Move row raised.
MoveRowFails ==
    /\ exec.active
    /\ Len(disk_moves') = Len(disk_moves) + 1
    /\ db'.moves = db.moves
    /\ result'.op # "killed"

---------------------------------------------------------------------------
\* The two audit stores (Spec).

\* The JSONL records a step appends.
NewRecords == {i \in DOMAIN jsonl' : i \notin DOMAIN jsonl}

\* C32: every scan, propose, approval, execute and rollback record appended
\* to the JSONL stream comes with a relational write of the same call.
C32_BothStores ==
    [][\A i \in NewRecords :
          /\ jsonl'[i].action \in {"scan", "propose", "approval", "execute",
                                   "rollback"}
          /\ \/ jsonl'[i].action = "execute" /\ db' # db
             \/ jsonl'[i].action # "execute" /\ RowCommitted(db', jsonl'[i])]_vars

\* What holds: the records other than execute come with their row.
C32_BothStoresButExecute ==
    [][\A i \in NewRecords :
          /\ jsonl'[i].action \in {"scan", "propose", "approval", "execute",
                                   "rollback"}
          /\ jsonl'[i].action # "execute" =>
                 RowCommitted(db', jsonl'[i]) /\ db' # db]_vars

---------------------------------------------------------------------------
\* Crash detection around the scan command (SpecScanCmd).

\* C33: start_scan is recorded before the first file is analysed, and a scan
\* command that was killed or exited with an error between the beginning of
\* enumeration and complete_scan is reported by detect_crash at the next start.
C33_CrashReported ==
    /\ sc.analysed > 0 /\ sc.pc # "next_start" /\ sc.ended = "none" =>
           state_dir.current.kind = "state"
    /\ sc.pc = "next_start" /\ sc.ended \in {"killed", "error"} =>
           rec_result.detected = "true"

\* What holds: the end is reported when it came after start_scan had returned.
C33_ReportedAfterStartScan ==
    sc.pc = "next_start" /\ sc.ended \in {"killed", "error"}
        /\ sc.at \in {"generate_proposal", "execute_proposal"} =>
            rec_result.detected = "true"

---------------------------------------------------------------------------
\* Errors on single entries of a scan (SpecScanner).

\* The files of the tree the scan is to return: reached by the pattern, no
\* directory, not hidden by name when hidden files are ignored, not below a
\* .organizer part.
Eligible ==
    {Entries[k] : k \in {j \in DOMAIN Entries :
        /\ sn.recursive \/ Len(Entries[j].parts) = 1
        /\ ~Entries[j].is_dir
        /\ ~(sn.ignore_hidden /\ Entries[j].parts[Len(Entries[j].parts)].dot)
        /\ \A i \in DOMAIN Entries[j].parts :
               Entries[j].parts[i] # Part(TRUE, "organizer")}}

\* C34: a scan that returns has one record for each eligible file whose
\* analysis did not fail and no other, each once, and scan_directory has
\* written exactly one Scan row with that number as file_count; a scan that
\* raised has written no Scan row.
C34_EntryErrorsSkipped ==
    /\ sn.pc = "returned" =>
           /\ RangeOf(sn.returned) = Eligible \ sn.fails
           /\ Cardinality(RangeOf(sn.returned)) = Len(sn.returned)
           /\ Len(db.scans) = 1
           /\ db.scans[1].file_count = Len(sn.returned)
    /\ sn.pc = "raised" => db.scans = << >>
    /\ sn.pc \in {"scan", "loop"} => db.scans = << >>

\* A recursive scan has returned although the analysis of a file failed, with
\* records of the files before and after it.
C34_Witness ==
    /\ sn.pc = "returned"
    /\ sn.recursive
    /\ sn.fails = {Entries[4]}
    /\ Entries[1] \in RangeOf(sn.returned)
    /\ Entries[8] \in RangeOf(sn.returned)
    /\ Len(db.scans) = 1

---------------------------------------------------------------------------
\* File content under execute and rollback (Spec).

\* The bytes are on disk: in the tree or in a backup directory.
Present(f, bk, bytes) ==
    \/ \E p \in Paths : f[p] = bytes
    \/ \E k \in DOMAIN bk : bk[k] = bytes

\* A step of execute_proposal or of rollback_proposal.
MovesFiles == exec.active \/ result'.op = "rollback"

\* C35: no step of execute_proposal or rollback_proposal destroys content:
\* the bytes of every file that were on disk before the step, at a source, a
\* destination or in a backup, are on disk after it.
C35_ContentPreserved ==
    [][MovesFiles =>
          \A p \in SrcPaths :
              Present(fs, backups, InitialBytes(p)) =>
                  Present(fs', backups', InitialBytes(p))]_vars

\* What holds: a step of execute_proposal whose destination holds no file
\* destroys no content.
C35_PreservedOnFreeTarget ==
    [][(exec.active /\ exec.idx <= Len(exec.files)
        /\ ~exists(fs, exec.files[exec.idx].destination)) =>
          \A p \in SrcPaths :
              Present(fs, backups, InitialBytes(p)) =>
                  Present(fs', backups', InitialBytes(p))]_vars

---------------------------------------------------------------------------
\* Watch batch mode under concurrency (SpecWatch).

\* The batches that hold the path.
BatchesOf(path) == {i \in DOMAIN wb.batches : path \in wb.batches[i]}

\* C36: no created path is lost and none is processed twice: a path is still
\* pending, is held by a batch that is about to process it, or is in a
\* processed batch, and it is in at most one batch.
C36_NoEventLostOrDuplicated ==
    \A path \in wb.created :
        /\ \/ path \in RangeOf(wb.pending)
           \/ \E t \in Threads : wb.thr[t].pc = "execute" /\ path \in wb.thr[t].files
           \/ BatchesOf(path) # {}
        /\ Cardinality(BatchesOf(path)) <= 1

\* The two halves, each violated on its own.
C36_NoEventLost ==
    \A path \in wb.created :
        \/ path \in RangeOf(wb.pending)
        \/ \E t \in Threads : wb.thr[t].pc = "execute" /\ path \in wb.thr[t].files
        \/ BatchesOf(path) # {}

C36_NoEventDuplicated ==
    \A path \in wb.created : Cardinality(BatchesOf(path)) <= 1

---------------------------------------------------------------------------
\* Referential integrity of the Move rows (Spec).

\* The (source, destination) pairs of a proposal's persisted plan.
PlanPairs(p) ==
    {<<db.proposals[p].plan.files[k].source, db.proposals[p].plan.files[k].destination>> :
        k \in DOMAIN db.proposals[p].plan.files}

\* C37: every Move row names an existing proposal, and its original and new
\* path are the source and destination of a file of that proposal's persisted
\* plan, also when a sub-proposal of the low-risk files was executed.
C37_MoveRowsReferToPlan ==
    \A i \in DOMAIN db.moves :
        /\ db.moves[i].proposal_id \in DOMAIN db.proposals
        /\ <<db.moves[i].original_path, db.moves[i].new_path>>
               \in PlanPairs(db.moves[i].proposal_id)

\* A sub-proposal built in batch or watch mode has run to its end: its
\* proposal lists two files and has one Move row.
C37_Witness ==
    /\ ~exec.active
    /\ result.op = "execute"
    /\ result.success
    /\ \E i \in DOMAIN db.moves :
           /\ move_hist[i].mode \in {"batch", "watch_batch"}
           /\ Cardinality(PlanPairs(db.moves[i].proposal_id)) = 2
           /\ Len(get_moves_by_proposal(db, db.moves[i].proposal_id)) = 1

---------------------------------------------------------------------------
\* The frame of update_scan_progress and complete_scan (SpecProgress).

\* The call that took the step is for a scan other than the stored one.
ForOtherScan ==
    /\ rm'.op \in {"update_scan_progress", "complete_scan"}
    /\ parses(state_dir.current)
    /\ rm'.arg # state_dir.current.scan_id

\* C38: update_scan_progress and complete_scan change the stored state only
\* when called with the stored scan_id, and then only processed_files
\* (respectively completed); a call for another scan changes nothing.
C38_ProgressFrame ==
    [][/\ ForOtherScan => state_dir' = state_dir
       /\ rm'.op = "update_scan_progress" /\ parses(state_dir.current) =>
              \E n \in 0..(MaxFiles + 1) :
                  state_dir'.current = [state_dir.current EXCEPT !.processed_files = n]
       /\ rm'.op = "complete_scan" /\ parses(state_dir.current) =>
              \E b \in BOOLEAN :
                  state_dir'.current = [state_dir.current EXCEPT !.completed = b]]_vars

\* What holds: the two calls change at most processed_files (respectively
\* completed) of the stored state, whatever scan_id they are given.
C38_OnlyOneField ==
    [][/\ rm'.op = "update_scan_progress" /\ parses(state_dir.current) =>
              \E n \in 0..(MaxFiles + 1) :
                  state_dir'.current = [state_dir.current EXCEPT !.processed_files = n]
       /\ rm'.op = "complete_scan" /\ parses(state_dir.current) =>
              state_dir'.current = [state_dir.current EXCEPT !.completed = TRUE]
       /\ rm'.op \in {"update_scan_progress", "complete_scan"}
              /\ ~parses(state_dir.current) => state_dir' = state_dir]_vars

---------------------------------------------------------------------------
\* Who may remove the lock file (SpecRelease).

\* C39: _release_lock removes the lock file only for the process that holds
\* the lock: called by another process, it leaves the lock of a live holder in
\* place.
C39_ReleaseOnlyOwnLock ==
    [][\A self \in Procs :
          (/\ lk[self].pc \in {"release_exists", "release_unlink"}
           /\ ~lk[self].holds
           /\ lock_file \in Procs \ {self}
           /\ lk[lock_file].holds)
          => lock_file' = lock_file]_vars

\* What holds: a process that does not hold the lock and is not inside
\* _release_lock leaves the lock of a live holder in place.
C39_AcquireKeepsLiveLock ==
    [][\A self \in Procs :
          (/\ lk[self].pc \notin {"idle", "release_exists", "release_unlink"}
           /\ lk'[self] # lk[self]
           /\ lock_file \in Procs \ {self}
           /\ lk[lock_file].holds)
          => lock_file' = lock_file]_vars

---------------------------------------------------------------------------
\* Destinations and base_dir (SpecDestination).

\* C40: the destination of a file in a proposal lies inside base_dir whatever
\* destination string the Suggester returned, and the file is moved to no
\* path outside base_dir.
C40_DestinationInsideBaseDir ==
    /\ dp.pc \in {"proposed", "moved"} => Inside(base_dir, dp.dest_path)
    /\ dp.pc = "moved" => Inside(base_dir, dp.moved_to)

\* What holds: the rule-based destination and the destination built from a
\* relative string without ".." parts lie inside base_dir.
C40_InsideWhenRelative ==
    (/\ dp.pc \in {"proposed", "moved"}
     /\ \/ ~dp.suggested
        \/ /\ ~dp.destination.absolute
           /\ \A i \in DOMAIN dp.destination.parts : dp.destination.parts[i] # "..")
    => Inside(base_dir, dp.dest_path)

=============================================================================
